---- MODULE Spec2Model ----
(***************************************************************************)
(* A model of the runtime instrumentation layer of claude-code-patches:    *)
(* the LRU engine, the memoization adapters (JSON.parse, RegExp,           *)
(* crypto.createHash), the serialize adapter (JSON.stringify), the timer   *)
(* governor (patched setInterval), the tiered buffer pool, the             *)
(* AsyncBatcher, the installer (applyPatches) and the load of the module   *)
(* (patch count, heap cap, telemetry gate).  Three builds of the           *)
(* layer exist in the repository                                           *)
(* and are modelled side by side:                                          *)
(*   "v2145"   claude-code-cpu-patches-2.1.45.js  (src/unnamed/part_001)   *)
(*   "v2129"   claude-code-cpu-patches.js, v2.1.29 (src/unnamed/part_003)  *)
(*   "runtime" runtime-patch.js written by patches.sh (src/unnamed/part_001)*)
(* Each component has its own specification (SpecLRU, SpecJSON, ...); the  *)
(* variables of the other components stay at their idle values.            *)
(***************************************************************************)
EXTENDS Integers, Sequences, FiniteSets, TLC

VARIABLES
  lruMax,      \* LRUCache.maxSize
  lruCache,    \* LRUCache.cache: a JS Map, as its entries <<key, value>> in insertion order
  lruTouch,    \* history: the keys present, ordered by their last touch (oldest first)
  lruLast      \* history: the last call on the cache and the Map before it

lruVars == <<lruMax, lruCache, lruTouch, lruLast>>

VARIABLES
  throttleTimers,  \* _throttleTimers: !process.env.CLAUDE_PATCH_NO_TIMER_THROTTLE
  bunDefined,      \* typeof Bun !== 'undefined'
  intervals,       \* the calls _origSetInterval has received, in order
  timerLast        \* history: the last call of the patched setInterval and its result

timerVars == <<throttleTimers, bunDefined, intervals, timerLast>>

VARIABLES
  jsonBuild,   \* which build's JSON.parse is installed
  jsonHeap,    \* the objects and arrays allocated so far; a reference is an index
  jsonCache,   \* _jsonParseCache.cache / jsonCache.parseCache / __jsonCache (a Map)
  jsonLast     \* history: the last call of the patched JSON.parse and its result

jsonVars == <<jsonBuild, jsonHeap, jsonCache, jsonLast>>

VARIABLES
  reBuild,     \* which build's RegExp is installed
  reObjs,      \* the RegExp objects constructed so far; a reference is an index
  reCache,     \* _regexCache / regexCache.cache / __regexCache (a Map: key -> reference)
  reLast       \* history: the last construction through the patched RegExp

reVars == <<reBuild, reObjs, reCache, reLast>>

VARIABLES
  hashBuild,   \* which build's crypto.createHash is installed
  hashers,     \* the hash objects createHash has returned, with their closures
  hashCache,   \* _hashCache.cache / hashCache.cache (the Map of an LRUCache)
  hashLast     \* history: the last call on a wrapped hash object and its result

hashVars == <<hashBuild, hashers, hashCache, hashLast>>

VARIABLES
  poolFree,    \* pools[tier].pool: each tier's free list (references to Buffers)
  poolBufs,    \* the Buffers created so far: [mem, len]; a reference is an index
  poolMem,     \* the memory blocks allocated so far: which parts hold non-zero bytes
  poolLast     \* history: the last call on the pool, and what callers did so far

poolVars == <<poolFree, poolBufs, poolMem, poolLast>>

VARIABLES
  batMax,      \* AsyncBatcher.maxBatchSize
  batches,     \* AsyncBatcher.batches: per key, the window's items (none: no entry)
  batTimers,   \* AsyncBatcher.timers: per key, the timer stored (0: no entry)
  batHost,     \* the host's timer queue: the timers scheduled, not fired, not cleared
  batItems,    \* the calls of batch so far, each with the state of its promise
  batLog,      \* history: the invocations of batch operations, with their outcome
  batTurn      \* history: what the current turn has enqueued and flushed, per key

batVars == <<batMax, batches, batTimers, batHost, batItems, batLog, batTurn>>

VARIABLES
  instBuild,     \* which module's applyPatches is installed
  instBindings,  \* per intercepted symbol, the wrappers around the original, outermost first
  instInstalls,  \* how many times applyPatches has run
  instReached,   \* history: per symbol, how many times its original has been invoked
  instLast       \* history: the last logical call of an intercepted symbol

instVars == <<instBuild, instBindings, instInstalls, instReached, instLast>>

VARIABLES
  strObjCache,  \* _jsonStringifyWeakMap / jsonCache.objectMap: a WeakMap keyed by object
  strCache,     \* jsonCache.stringifyCache (v2129): a Map keyed by content
  strLast       \* history: the last call of the patched JSON.stringify and its result

strVars == <<strObjCache, strCache, strLast>>

VARIABLES
  ldEnv,          \* the process at load: environment flags and whether require works
  ldPc,           \* the block of the module that runs next
  ldNodeOptions,  \* process.env.NODE_OPTIONS, as its pieces (options and spaces)
  ldTelemetryOff, \* process.env.DISABLE_TELEMETRY is set
  patchCount,     \* _patchCount
  ldActive,       \* history: the interceptions that are in effect in the process
  ldPublished     \* __claude_v2145_patches.patchCount and the count in the log line

loadVars == <<ldEnv, ldPc, ldNodeOptions, ldTelemetryOff, patchCount, ldActive, ldPublished>>

VARIABLES
  pushArr,     \* the receiver of Array.prototype.push: its elements
  pushLast     \* history: the last call of push, the receiver before it, the value returned

pushVars == <<pushArr, pushLast>>

VARIABLES
  ixArr,       \* the receiver of Array.prototype.indexOf: its elements
  ixMap,       \* its own property __indexMap: whether set, and the Map
  ixLast       \* history: the last call, the value returned, the native answer

ixVars == <<ixArr, ixMap, ixLast>>

VARIABLES
  sbChunks,       \* StringBuilder.chunks: the array, Hole where nothing was stored
  sbLength,       \* StringBuilder.length
  sbTotalLength,  \* StringBuilder.totalLength
  sbLast          \* history: the last call, whether it threw, the value returned,
                  \* the string forms appended since construction or clear

sbVars == <<sbChunks, sbLength, sbTotalLength, sbLast>>

VARIABLES
  opMaxSize,    \* ObjectPool.maxSize
  opAvailable,  \* ObjectPool.available: the free list, last pushed last
  opInUse,      \* ObjectPool.inUse: the objects marked in use
  opLast        \* history: the last call and its object; whether a release of an
                \* object in the free list and one of an object the pool never
                \* held have happened

opVars == <<opMaxSize, opAvailable, opInUse, opLast>>

VARIABLES
  flaArray,     \* FastLookupArray.array: the underlying array
  flaIndexMap,  \* FastLookupArray.indexMap: the Map from element to index
  flaLast       \* history: the last call, its index and its value; whether set was called

flaVars == <<flaArray, flaIndexMap, flaLast>>

vars == <<lruVars, timerVars, jsonVars, reVars, hashVars, poolVars, batVars, instVars, strVars, loadVars, pushVars, ixVars, sbVars, opVars, flaVars>>

\* What the actions of one component leave alone.
notLru == <<timerVars, jsonVars, reVars, hashVars, poolVars, batVars, instVars, strVars, loadVars, pushVars, ixVars, sbVars, opVars, flaVars>>
notTimer == <<lruVars, jsonVars, reVars, hashVars, poolVars, batVars, instVars, strVars, loadVars, pushVars, ixVars, sbVars, opVars, flaVars>>
notJson == <<lruVars, timerVars, reVars, hashVars, poolVars, batVars, instVars, strVars, loadVars, pushVars, ixVars, sbVars, opVars, flaVars>>
notRe == <<lruVars, timerVars, jsonVars, hashVars, poolVars, batVars, instVars, strVars, loadVars, pushVars, ixVars, sbVars, opVars, flaVars>>
notHash == <<lruVars, timerVars, jsonVars, reVars, poolVars, batVars, instVars, strVars, loadVars, pushVars, ixVars, sbVars, opVars, flaVars>>
notPool == <<lruVars, timerVars, jsonVars, reVars, hashVars, batVars, instVars, strVars, loadVars, pushVars, ixVars, sbVars, opVars, flaVars>>
notBat == <<lruVars, timerVars, jsonVars, reVars, hashVars, poolVars, instVars, strVars, loadVars, pushVars, ixVars, sbVars, opVars, flaVars>>
notInst == <<lruVars, timerVars, jsonVars, reVars, hashVars, poolVars, batVars, strVars, loadVars, pushVars, ixVars, sbVars, opVars, flaVars>>
notJsonStr == <<lruVars, timerVars, reVars, hashVars, poolVars, batVars, instVars, loadVars, pushVars, ixVars, sbVars, opVars, flaVars>>
notLoad == <<lruVars, timerVars, jsonVars, reVars, hashVars, poolVars, batVars, instVars, strVars, pushVars, ixVars, sbVars, opVars, flaVars>>
notPush == <<lruVars, timerVars, jsonVars, reVars, hashVars, poolVars, batVars, instVars, strVars, loadVars, ixVars, sbVars, opVars, flaVars>>
notIndex == <<lruVars, timerVars, jsonVars, reVars, hashVars, poolVars, batVars, instVars, strVars, loadVars, pushVars, sbVars, opVars, flaVars>>
notSb == <<lruVars, timerVars, jsonVars, reVars, hashVars, poolVars, batVars, instVars, strVars, loadVars, pushVars, ixVars, opVars, flaVars>>
notObjectPool == <<lruVars, timerVars, jsonVars, reVars, hashVars, poolVars, batVars, instVars, strVars, loadVars, pushVars, ixVars, sbVars, flaVars>>
notLookup == <<lruVars, timerVars, jsonVars, reVars, hashVars, poolVars, batVars, instVars, strVars, loadVars, pushVars, ixVars, sbVars, opVars>>

(***************************************************************************)
(* Sequence helpers.                                                       *)
(***************************************************************************)
Range(s) == {s[i] : i \in 1..Len(s)}

SeqWithout(s, x) == SelectSeq(s, LAMBDA e : e # x)

(***************************************************************************)
(* A JS Map: a sequence of <<key, value>> entries in insertion order.      *)
(* A JS value is a record [t, v]: undefined, or a primitive.                *)
(***************************************************************************)
Undefined == [t |-> "undefined", v |-> 0]

Prim(n) == [t |-> "prim", v |-> n]

MapKeys(m) == {m[i][1] : i \in 1..Len(m)}

MapHas(m, k) == k \in MapKeys(m)

MapGet(m, k) ==
  IF MapHas(m, k) THEN (CHOOSE e \in Range(m) : e[1] = k)[2] ELSE Undefined

MapDelete(m, k) == SelectSeq(m, LAMBDA e : e[1] # k)

\* Map.prototype.set: an existing key keeps its place, a new key goes last.
MapSet(m, k, v) ==
  IF MapHas(m, k)
  THEN [i \in 1..Len(m) |-> IF m[i][1] = k THEN <<k, v>> ELSE m[i]]
  ELSE Append(m, <<k, v>>)

\* m.keys().next().value
MapFirstKey(m) == IF Len(m) = 0 THEN Undefined ELSE m[1][1]

(***************************************************************************)
(* LRUCache (part_003 66-96) and _LRUCache (part_001 142-166).             *)
(***************************************************************************)
MaxCapacity == 2
NumKeys == 3

LRUKeys == 1..NumKeys
LRUValues == {Undefined, Prim(1), Prim(2)}

\* get(key): the Map after the call.  The returned value is MapGet(cache, key).
LRUGetOp(cache, key) ==
  LET value == MapGet(cache, key) IN
  IF value # Undefined
  THEN MapSet(MapDelete(cache, key), key, value)
  ELSE cache

\* A set that tests the size before it tests the presence of the key.
LRUSetOpSizeFirst(cache, maxSize, key, value) ==
  LET c1 == IF Len(cache) >= maxSize
            THEN MapDelete(cache, MapFirstKey(cache))
            ELSE IF MapHas(cache, key) THEN MapDelete(cache, key) ELSE cache
  IN MapSet(c1, key, value)

\* set(key, value): the Map after the call.
LRUSetOp(cache, maxSize, key, value) ==
  LET c1 == IF MapHas(cache, key)
            THEN MapDelete(cache, key)
            ELSE IF Len(cache) >= maxSize
                 THEN MapDelete(cache, MapFirstKey(cache))
                 ELSE cache
  IN MapSet(c1, key, value)

\* History of a cache.  ret: the value the last get returned; latest: for each
\* key the value of its most recent set, or Absent when the key was never
\* set, or was evicted or cleared since.
Absent == [t |-> "absent", v |-> 0]

NoLRUCall ==
  [op |-> "new", key |-> 0, pre |-> <<>>, preTouch |-> <<>>, ret |-> Undefined,
   latest |-> [k \in LRUKeys |-> Absent]]

\* latest after set(k, v).  An eviction is due only when k is not held and
\* the cache holds maxSize keys; the keys the set removed are then Absent.
LatestAfterSet(latest, maxSize, k, v, before, after) ==
  LET held == {x \in LRUKeys : latest[x] # Absent}
      due == k \notin held /\ Cardinality(held) >= maxSize
      gone == IF due THEN MapKeys(before) \ MapKeys(after) ELSE {}
  IN [x \in LRUKeys |-> IF x = k THEN v ELSE IF x \in gone THEN Absent ELSE latest[x]]

LRUInit ==
  /\ lruMax \in 1..MaxCapacity
  /\ lruCache = <<>>
  /\ lruTouch = <<>>
  /\ lruLast = NoLRUCall

LRUGet(k) ==
  /\ lruCache' = LRUGetOp(lruCache, k)
  /\ lruTouch' = IF MapHas(lruCache, k) THEN Append(SeqWithout(lruTouch, k), k)
                 ELSE lruTouch
  /\ lruLast' = [op |-> "get", key |-> k, pre |-> lruCache, preTouch |-> lruTouch,
                  ret |-> MapGet(lruCache, k), latest |-> lruLast.latest]
  /\ UNCHANGED <<lruMax, notLru>>

LRUSet(k, v) ==
  /\ lruCache' = LRUSetOp(lruCache, lruMax, k, v)
  /\ lruTouch' = SelectSeq(Append(SeqWithout(lruTouch, k), k),
                           LAMBDA x : x \in MapKeys(lruCache'))
  /\ lruLast' = [op |-> "set", key |-> k, pre |-> lruCache, preTouch |-> lruTouch,
                  ret |-> Undefined,
                  latest |-> LatestAfterSet(lruLast.latest, lruMax, k, v, lruCache,
                                            LRUSetOp(lruCache, lruMax, k, v))]
  /\ UNCHANGED <<lruMax, notLru>>

\* clear() exists in part_003 only.
LRUClear ==
  /\ lruCache' = <<>>
  /\ lruTouch' = <<>>
  /\ lruLast' = [op |-> "clear", key |-> 0, pre |-> lruCache, preTouch |-> lruTouch,
                  ret |-> Undefined, latest |-> [k \in LRUKeys |-> Absent]]
  /\ UNCHANGED <<lruMax, notLru>>

(***************************************************************************)
(* Timer governor: patchedSetInterval (part_001 47-63).                    *)
(* A delay is [t, n]: its typeof and, for a number, its value; a string    *)
(* delay keeps in n the number it spells.                                  *)
(***************************************************************************)
MaxTimers == 2

ThrottleMax == 50
ThrottleFloor == 100
GcInterval == 120000

Num(n) == [t |-> "number", n |-> n]

Delays ==
  {Num(n) : n \in {-5, 0, 1, 16, 50, 51, 100, 1000, 200000}}
    \cup {[t |-> "string", n |-> 16], [t |-> "undefined", n |-> 0]}

\* Bun.gc exists only under Bun; the other callbacks are the program's own.
BunGc == "Bun.gc"
Callbacks(bun) == {"tick", "work"} \cup (IF bun THEN {BunGc} ELSE {})

\* () => Bun.gc(false): a closure of the patch, no callback of the program
GcNonBlocking == "() => Bun.gc(false)"

ExtraArgs == {<<>>, <<"a1">>}

OrigCall(fn, delay, args, log) ==
  [fn |-> fn, delay |-> delay, args |-> args, log |-> log]

\* A governor that tests the delay floor before the identity of the callback.
PatchedSetIntervalFloorFirst(fn, delay, args, throttle, bun) ==
  IF throttle /\ delay.t = "number" /\ delay.n > 0 /\ delay.n <= ThrottleMax
  THEN <<OrigCall(fn, Num(ThrottleFloor), args, "throttle")>>
  ELSE IF bun /\ fn = BunGc
       THEN <<OrigCall(GcNonBlocking, Num(GcInterval), args, "gc")>>
       ELSE <<OrigCall(fn, delay, args, "none")>>

\* A governor that ignores the opt-out flag.
PatchedSetIntervalNoOptOut(fn, delay, args, throttle, bun) ==
  IF bun /\ fn = BunGc
  THEN <<OrigCall(GcNonBlocking, Num(GcInterval), args, "gc")>>
  ELSE IF delay.t = "number" /\ delay.n > 0 /\ delay.n <= ThrottleMax
       THEN <<OrigCall(fn, Num(ThrottleFloor), args, "throttle")>>
       ELSE <<OrigCall(fn, delay, args, "none")>>

\* patchedSetInterval(fn, delay, ...args): the calls it makes of
\* _origSetInterval, each with the line it logged before.
PatchedSetInterval(fn, delay, args, throttle, bun) ==
  IF bun /\ fn = BunGc
  THEN <<OrigCall(GcNonBlocking, Num(GcInterval), args, "gc")>>
  ELSE IF throttle /\ delay.t = "number" /\ delay.n > 0 /\ delay.n <= ThrottleMax
       THEN <<OrigCall(fn, Num(ThrottleFloor), args, "throttle")>>
       ELSE <<OrigCall(fn, delay, args, "none")>>

NoTimerCall ==
  [fn |-> "none", delay |-> Num(0), args |-> <<>>, calls |-> <<>>, handle |-> 0]

TimerInit ==
  /\ throttleTimers \in BOOLEAN
  /\ bunDefined \in BOOLEAN
  /\ intervals = <<>>
  /\ timerLast = NoTimerCall

\* One call of globalThis.setInterval.  _origSetInterval returns a new handle
\* (here the index of the registration), which the patch returns to the caller.
SetInterval(fn, delay, args) ==
  LET calls == PatchedSetInterval(fn, delay, args, throttleTimers, bunDefined) IN
  /\ Len(intervals) < MaxTimers
  /\ intervals' = intervals \o calls
  /\ timerLast' = [fn |-> fn, delay |-> delay, args |-> args, calls |-> calls,
                   handle |-> Len(intervals')]
  /\ UNCHANGED <<throttleTimers, bunDefined, notTimer>>

(***************************************************************************)
(* Parse adapter: patchedParse (part_001 235-251), JSONCache.parse         *)
(* (part_003 510-526) and JSON.parse of runtime-patch.js (part_001         *)
(* 742-757).  A JS value is a primitive [t |-> "prim"] or a reference      *)
(* [t |-> "ref"] to a heap object; an object or array has one property     *)
(* (a, or index 0), held in field a.                                       *)
(***************************************************************************)
MaxObjects == 4
JsonCacheMax == 2

Builds == {"v2145", "v2129", "runtime"}

Ref(i) == [t |-> "ref", v |-> i]
Obj(kind, a) == [kind |-> kind, a |-> a]

\* '7', '{"a":1}', '[1]' and '{"a":{"a":1}}'
Texts == {"7", "{a:1}", "[1]", "{a:{a:1}}"}

\* The value a JS value stands for, references followed (nesting is at most 2).
DeepVal(v, heap) ==
  IF v.t = "prim" THEN <<v.v>>
  ELSE LET o == heap[v.v] IN
       <<o.kind, IF o.a.t = "prim" THEN <<o.a.v>>
                 ELSE <<heap[o.a.v].kind, <<heap[o.a.v].a.v>> >> >>

\* The original JSON.parse(text): the heap after it and the value returned.
\* Every call builds new objects.
OrigParse(text, heap) ==
  LET n == Len(heap) IN
  CASE text = "7" -> [heap |-> heap, ret |-> Prim(7)]
    [] text = "{a:1}" -> [heap |-> Append(heap, Obj("obj", Prim(1))), ret |-> Ref(n + 1)]
    [] text = "[1]" -> [heap |-> Append(heap, Obj("arr", Prim(1))), ret |-> Ref(n + 1)]
    [] text = "{a:{a:1}}" ->
         [heap |-> heap \o <<Obj("obj", Prim(1)), Obj("obj", Ref(n + 1))>>,
          ret |-> Ref(n + 2)]
    [] text = "1" -> [heap |-> heap, ret |-> Prim(1)]
    [] text = "2" -> [heap |-> heap, ret |-> Prim(2)]
    [] text = "\"1\"" -> [heap |-> heap, ret |-> [t |-> "str", v |-> 1]]
    [] text = "true" -> [heap |-> heap, ret |-> [t |-> "bool", v |-> 1]]
    [] text = "null" -> [heap |-> heap, ret |-> [t |-> "null", v |-> 0]]
    [] text = "{a:2}" -> [heap |-> Append(heap, Obj("obj", Prim(2))), ret |-> Ref(n + 1)]
    [] text = "[2]" -> [heap |-> Append(heap, Obj("arr", Prim(2))), ret |-> Ref(n + 1)]
    [] text = "{a:\"1\"}" ->
         [heap |-> Append(heap, Obj("obj", [t |-> "str", v |-> 1])), ret |-> Ref(n + 1)]
    [] text = "[\"1\"]" ->
         [heap |-> Append(heap, Obj("arr", [t |-> "str", v |-> 1])), ret |-> Ref(n + 1)]

\* The original JSON.parse(text, reviver) with reviver (k, v) => k === '' ? 9 : v
OrigParseRevived(text, heap) == [heap |-> OrigParse(text, heap).heap, ret |-> Prim(9)]

\* What the original JSON.parse(text) returns, as a value.
OrigValue(text) == DeepVal(OrigParse(text, <<>>).ret, OrigParse(text, <<>>).heap)

\* Array.isArray(cached) ? [...cached] : { ...cached }
ShallowClone(v, heap) ==
  [heap |-> Append(heap, heap[v.v]), ret |-> Ref(Len(heap) + 1)]

\* this.parseCache.size >= this.maxSize: delete the first key; then set
FifoInsert(cache, maxSize, key, value) ==
  MapSet(IF Len(cache) >= maxSize THEN MapDelete(cache, MapFirstKey(cache)) ELSE cache,
         key, value)

\* The cache key of a call: the text (v2145, which caches no reviver call),
\* String(text) + '|' + (reviver?.toString() || '') (v2129), 'p:' + text (runtime).
ParseKey(build, text, reviver) ==
  CASE build = "v2145" -> text
    [] build = "v2129" -> <<text, "|", IF reviver THEN "(k, v) => k === '' ? 9 : v" ELSE "">>
    [] build = "runtime" -> <<"p:", text>>

\* A parse that returns the cached reference itself on a hit (no clone).
PatchedParse2145NoClone(text, reviver, heap, cache) ==
  IF ~reviver
  THEN LET cached == MapGet(cache, text) IN
       IF cached # Undefined
       THEN [heap |-> heap, cache |-> LRUGetOp(cache, text), ret |-> cached, hit |-> TRUE]
       ELSE LET r == OrigParse(text, heap) IN
            [heap |-> r.heap, cache |-> LRUSetOp(cache, JsonCacheMax, text, r.ret),
             ret |-> r.ret, hit |-> FALSE]
  ELSE LET r == OrigParseRevived(text, heap) IN
       [heap |-> r.heap, cache |-> cache, ret |-> r.ret, hit |-> FALSE]

\* patchedParse(text, reviver) of v2.1.45: heap and cache after, value returned.
PatchedParse2145(text, reviver, heap, cache) ==
  IF ~reviver
  THEN LET cached == MapGet(cache, text) IN
       IF cached # Undefined
       THEN IF cached.t = "ref"
            THEN LET c == ShallowClone(cached, heap) IN
                 [heap |-> c.heap, cache |-> LRUGetOp(cache, text), ret |-> c.ret,
                  hit |-> TRUE]
            ELSE [heap |-> heap, cache |-> LRUGetOp(cache, text), ret |-> cached,
                  hit |-> TRUE]
       ELSE LET r == OrigParse(text, heap) IN
            [heap |-> r.heap, cache |-> LRUSetOp(cache, JsonCacheMax, text, r.ret),
             ret |-> r.ret, hit |-> FALSE]
  ELSE LET r == OrigParseRevived(text, heap) IN
       [heap |-> r.heap, cache |-> cache, ret |-> r.ret, hit |-> FALSE]

\* JSONCache.parse (v2129) and JSON.parse of runtime-patch.js: the cached value
\* is returned as it is; a miss stores the result, first key out when full.
PatchedParseMap(build, text, reviver, heap, cache) ==
  LET key == ParseKey(build, text, reviver)
      cached == MapGet(cache, key)
  IN IF cached # Undefined
     THEN [heap |-> heap, cache |-> cache, ret |-> cached, hit |-> TRUE]
     ELSE LET r == IF reviver THEN OrigParseRevived(text, heap)
                   ELSE OrigParse(text, heap)
          IN [heap |-> r.heap, cache |-> FifoInsert(cache, JsonCacheMax, key, r.ret),
              ret |-> r.ret, hit |-> FALSE]

PatchedParse(build, text, reviver, heap, cache) ==
  IF build = "v2145" THEN PatchedParse2145(text, reviver, heap, cache)
  ELSE PatchedParseMap(build, text, reviver, heap, cache)

\* given: the references parse has returned so far; again: the last call
\* returned a reference that an earlier call had returned.
NoJsonCall ==
  [op |-> "none", text |-> "", reviver |-> FALSE, ret |-> Prim(0), retVal |-> <<0>>,
   hit |-> FALSE, revived |-> FALSE, mutated |-> FALSE, given |-> {}, again |-> FALSE]

JsonInit ==
  /\ jsonBuild \in Builds
  /\ jsonHeap = <<>>
  /\ jsonCache = <<>>
  /\ jsonLast = NoJsonCall

\* One call JSON.parse(text) or JSON.parse(text, reviver).  retVal is the value
\* returned, as it is when the call returns.
JsonParse(text, reviver) ==
  LET r == PatchedParse(jsonBuild, text, reviver, jsonHeap, jsonCache) IN
  /\ Len(r.heap) <= MaxObjects
  /\ jsonHeap' = r.heap
  /\ jsonCache' = r.cache
  /\ jsonLast' = [op |-> "parse", text |-> text, reviver |-> reviver, ret |-> r.ret,
                  retVal |-> DeepVal(r.ret, r.heap), hit |-> r.hit,
                  revived |-> jsonLast.revived \/ reviver,
                  mutated |-> jsonLast.mutated,
                  given |-> IF r.ret.t = "ref" THEN jsonLast.given \cup {r.ret.v}
                            ELSE jsonLast.given,
                  again |-> r.ret.t = "ref" /\ r.ret.v \in jsonLast.given]
  /\ UNCHANGED <<jsonBuild, notJson>>

\* A caller assigns 2 to the property of an object it was given (every object
\* of the heap was returned by a parse, or is reachable from one that was).
JsonMutate(i) ==
  /\ jsonHeap[i].a # Prim(2)
  /\ jsonHeap' = [jsonHeap EXCEPT ![i].a = Prim(2)]
  /\ jsonLast' = [jsonLast EXCEPT !.op = "mutate", !.mutated = TRUE, !.again = FALSE]
  /\ UNCHANGED <<jsonBuild, jsonCache, notJson>>

(***************************************************************************)
(* Pattern-matcher adapter: PatchedRegExp (part_001 262-297),              *)
(* RegexCache.get with the RegExp wrapper of applyPatches (part_003        *)
(* 553-577, 795-802) and globalThis.RegExp of runtime-patch.js (part_001   *)
(* 762-785).  A RegExp object is [source, flags, lastIndex].               *)
(***************************************************************************)
MaxRegexObjs == 3
RegexCacheMax == 2
MaxIndex == 2

Patterns == {"a", "b"}
Flags == {"", "g", "y"}

IsGlobal(flags) == flags = "g"
IsSticky(flags) == flags = "y"
Stateful(re) == IsGlobal(re.flags) \/ IsSticky(re.flags)

\* A pattern argument is a string [str |-> TRUE, source] or an existing
\* RegExp [str |-> FALSE, source, flags].
StrPattern(p) == [str |-> TRUE, source |-> p, flags |-> ""]
RePattern(re) == [str |-> FALSE, source |-> re.source, flags |-> re.flags]

\* new _OrigRegExp(pattern, flags): a new matcher, lastIndex 0.  Flags given
\* with an existing RegExp replace its own.
OrigRegExp(pattern, flags) ==
  [source |-> pattern.source, flags |-> flags, lastIndex |-> 0]

\* String(pattern), as its pieces: the string itself, or /source/flags
PatternString(pattern) ==
  IF pattern.str THEN <<pattern.source>>
  ELSE <<"/", pattern.source, "/", pattern.flags>>

\* pattern + '\0' + (flags || '') (v2145), pattern + '|' + (flags || '') (others)
RegexKey(build, pattern, flags) ==
  IF build = "v2145" THEN <<PatternString(pattern), "\\0", flags>>
  ELSE <<PatternString(pattern), "|", flags>>

\* A construction that returns the cached matcher as it is (no reset of lastIndex).
PatchedRegExp2145NoReset(pattern, flags, objs, cache) ==
  LET key == RegexKey("v2145", pattern, flags)
      cached == MapGet(cache, key)
  IN IF cached # Undefined
     THEN [objs |-> objs, cache |-> cache, ret |-> cached.v, hit |-> TRUE]
     ELSE [objs |-> Append(objs, OrigRegExp(pattern, flags)),
           cache |-> FifoInsert(cache, RegexCacheMax, key, Prim(Len(objs) + 1)),
           ret |-> Len(objs) + 1, hit |-> FALSE]

\* PatchedRegExp(pattern, flags) of v2.1.45 for a string pattern: the objects
\* and the cache after the call, and the reference returned.
PatchedRegExp2145(pattern, flags, objs, cache) ==
  LET key == RegexKey("v2145", pattern, flags)
      cached == MapGet(cache, key)
  IN IF cached # Undefined
     THEN [objs |-> IF Stateful(objs[cached.v])
                    THEN [objs EXCEPT ![cached.v].lastIndex = 0]
                    ELSE objs,
           cache |-> cache, ret |-> cached.v, hit |-> TRUE]
     ELSE [objs |-> Append(objs, OrigRegExp(pattern, flags)),
           cache |-> FifoInsert(cache, RegexCacheMax, key, Prim(Len(objs) + 1)),
           ret |-> Len(objs) + 1, hit |-> FALSE]

\* RegexCache.get(pattern, flags) (v2129) and globalThis.RegExp of runtime-patch.js
RegexCacheGet(build, pattern, flags, objs, cache) ==
  LET key == RegexKey(build, pattern, flags)
      cached == MapGet(cache, key)
  IN IF cached # Undefined
     THEN [objs |-> objs, cache |-> cache, ret |-> cached.v, hit |-> TRUE]
     ELSE [objs |-> Append(objs, OrigRegExp(pattern, flags)),
           cache |-> FifoInsert(cache, RegexCacheMax, key, Prim(Len(objs) + 1)),
           ret |-> Len(objs) + 1, hit |-> FALSE]

\* typeof pattern !== 'string' (v2145): the original constructor, no cache
PatchedRegExp(build, pattern, flags, objs, cache) ==
  IF build = "v2145"
  THEN IF pattern.str THEN PatchedRegExp2145(pattern, flags, objs, cache)
       ELSE [objs |-> Append(objs, OrigRegExp(pattern, flags)), cache |-> cache,
             ret |-> Len(objs) + 1, hit |-> FALSE]
  ELSE RegexCacheGet(build, pattern, flags, objs, cache)

\* touch: the keys in the cache, ordered by their last use (an insertion or a
\* hit), oldest first; evicted: the keys the last construction removed from the
\* cache; lru: the least recently used key before a construction that evicted.
NoRegexCall ==
  [op |-> "none", pattern |-> StrPattern(""), flags |-> "", ret |-> 0, hit |-> FALSE,
   lastIndex |-> 0, touch |-> <<>>, evicted |-> {}, lru |-> {}, moved |-> {}]

RegexInit ==
  /\ reBuild \in Builds
  /\ reObjs = <<>>
  /\ reCache = <<>>
  /\ reLast = NoRegexCall

\* new RegExp(pattern, flags).  lastIndex in the history is that of the
\* returned matcher when the call returns.
RegExpNew(pattern, flags) ==
  LET r == PatchedRegExp(reBuild, pattern, flags, reObjs, reCache) IN
  /\ Len(r.objs) <= MaxRegexObjs
  /\ reObjs' = r.objs
  /\ reCache' = r.cache
  /\ reLast' = [op |-> "new", pattern |-> pattern, flags |-> flags, ret |-> r.ret,
                hit |-> r.hit, lastIndex |-> r.objs[r.ret].lastIndex,
                touch |-> LET key == RegexKey(reBuild, pattern, flags)
                              used == IF MapHas(r.cache, key) /\ (r.hit \/ ~MapHas(reCache, key))
                                      THEN Append(SeqWithout(reLast.touch, key), key)
                                      ELSE reLast.touch
                          IN SelectSeq(used, LAMBDA k : MapHas(r.cache, k)),
                evicted |-> MapKeys(reCache) \ MapKeys(r.cache),
                lru |-> IF MapKeys(reCache) \ MapKeys(r.cache) # {}
                        THEN {Head(reLast.touch)} ELSE {},
                moved |-> {i \in 1..Len(reObjs) :
                             r.objs[i].lastIndex # reObjs[i].lastIndex}]
  /\ UNCHANGED <<reBuild, notRe>>

\* A caller runs exec or test on a matcher it holds: a global or sticky matcher
\* moves its lastIndex past the match, or back to 0 when nothing matches.
RegExpExec(i, pos) ==
  /\ Stateful(reObjs[i])
  /\ pos # reObjs[i].lastIndex
  /\ pos = 0 \/ pos > reObjs[i].lastIndex
  /\ reObjs' = [reObjs EXCEPT ![i].lastIndex = pos]
  /\ reLast' = [reLast EXCEPT !.op = "exec"]
  /\ UNCHANGED <<reBuild, reCache, notRe>>

(***************************************************************************)
(* Digest adapter: cachedCreateHash (part_001 170-209) and the createHash  *)
(* wrapper of applyPatches (part_003 758-792, claude-code-cpu-patches.js   *)
(* 245-278).  A string is the sequence of its characters, a Buffer the     *)
(* sequence of its bytes.                                                  *)
(***************************************************************************)
MaxHashers == 2
MaxChunks == 2
HashCacheMax == 2
HashMaxCachedLen == 3

HashBuilds == {"v2145", "v2129"}
Algorithms == {"md5", "sha256"}
OutEncodings == {"hex", "base64"}

StrData(s, enc) == [str |-> TRUE, s |-> s, bytes |-> <<>>, enc |-> enc]
BufData(b) == [str |-> FALSE, s |-> <<>>, bytes |-> b, enc |-> "utf8"]

\* update('ab'), update('ab', 'hex'), update(Buffer [0xff])
DataInputs ==
  {StrData(<<"a", "b">>, "utf8"), StrData(<<"a", "b">>, "hex"), BufData(<<255>>)}

\* The bytes the original update hashes: a string in its input encoding (hex
\* takes two digits a byte), a Buffer as it is.
Utf8Byte(c) == IF c = "a" THEN 97 ELSE 98
HexDigit(c) == IF c = "a" THEN 10 ELSE 11
InputBytes(data) ==
  IF ~data.str THEN data.bytes
  ELSE IF data.enc = "hex"
       THEN IF Len(data.s) >= 2
            THEN <<16 * HexDigit(data.s[1]) + HexDigit(data.s[2])>>
            ELSE <<>>
       ELSE [i \in 1..Len(data.s) |-> Utf8Byte(data.s[i])]

\* Buffer.prototype.toString('utf8'): a byte that is no UTF-8 becomes U+FFFD.
Utf8Decode(bytes) ==
  [i \in 1..Len(bytes) |->
     IF bytes[i] = 97 THEN "a" ELSE IF bytes[i] = 98 THEN "b" ELSE "U+FFFD"]

\* typeof data === 'string' ? data : data.toString(encoding || 'utf8')
ChunkOf(data) == IF data.str THEN data.s ELSE Utf8Decode(data.bytes)

RECURSIVE Join(_)
\* chunks.join('')
Join(chunks) == IF chunks = <<>> THEN <<>> ELSE Head(chunks) \o Join(Tail(chunks))

\* algorithm + ':' + _chunks.join('')
HashKey(alg, chunks) == <<alg, ":">> \o Join(chunks)

\* _chunks.reduce((sum, c) => sum + c.length, 0)
TotalLen(chunks) == Len(Join(chunks))

\* The original digest: a value that names the algorithm, the bytes hashed and
\* the output encoding (two digests are equal only when all three are).
OrigDigest(alg, input, enc) ==
  [t |-> "digest", alg |-> alg, input |-> input, enc |-> enc]

Throws == [t |-> "throw", alg |-> "", input |-> <<>>, enc |-> ""]

NewHasher(alg) ==
  [alg |-> alg, chunks |-> <<>>, input |-> <<>>, allInput |-> <<>>,
   finalized |-> FALSE, digested |-> FALSE]

\* totalLen < 10_000 with every length cached
IsSmallAlways(len) == TRUE

\* totalLen < 10_000: only small inputs are cached
IsSmall(len) == len < HashMaxCachedLen

\* hash.digest(encoding) of a wrapped hash object h: the hash object and the
\* cache after the call, and what the call returns (or that it throws).
\* The original digest throws on a finalized hash object.
\* v2145 reads the cache only below the size threshold; v2129 always reads it.
WrappedDigest(build, h, enc, cache) ==
  LET key == HashKey(h.alg, h.chunks)
      small == IsSmall(TotalLen(h.chunks))
      reads == small \/ build = "v2129"
      cached == IF reads THEN MapGet(cache, key) ELSE Undefined
      cache1 == IF reads THEN LRUGetOp(cache, key) ELSE cache
  IN IF cached # Undefined
     THEN [h |-> h, cache |-> cache1, ret |-> cached, hit |-> TRUE]
     ELSE IF h.finalized
          THEN [h |-> h, cache |-> cache1, ret |-> Throws, hit |-> FALSE]
          ELSE LET result == OrigDigest(h.alg, h.input, enc) IN
               [h |-> [h EXCEPT !.finalized = TRUE],
                cache |-> IF small THEN LRUSetOp(cache1, HashCacheMax, key, result)
                          ELSE cache1,
                ret |-> result, hit |-> FALSE]

\* first: no digest call was made on the hash object before this one;
\* finalized: the original hash object was finalized before this call;
\* large: the accumulated chunks are at or above the size threshold;
\* same: the call left the cache as it was, contents and order;
\* added: the cache holds a key after the call that it did not hold before.
NoHashCall ==
  [op |-> "none", h |-> 0, enc |-> "", ret |-> Undefined, hit |-> FALSE,
   first |-> FALSE, finalized |-> FALSE, large |-> FALSE, same |-> TRUE,
   added |-> FALSE]

HashInit ==
  /\ hashBuild \in HashBuilds
  /\ hashers = <<>>
  /\ hashCache = <<>>
  /\ hashLast = NoHashCall

\* crypto.createHash(algorithm)
CreateHash(alg) ==
  /\ Len(hashers) < MaxHashers
  /\ hashers' = Append(hashers, NewHasher(alg))
  /\ hashLast' = [NoHashCall EXCEPT !.op = "create", !.h = Len(hashers) + 1]
  /\ UNCHANGED <<hashBuild, hashCache, notHash>>

\* hash.update(data, encoding): the chunk is recorded, then the original update
\* runs, which throws on a finalized hash object.  allInput is history: the
\* bytes of every update call made on the hash object.
HashUpdate(i, data) ==
  LET h == hashers[i] IN
  /\ Len(h.chunks) < MaxChunks
  /\ hashers' = [hashers EXCEPT
       ![i].chunks = Append(h.chunks, ChunkOf(data)),
       ![i].input = IF h.finalized THEN h.input ELSE h.input \o InputBytes(data),
       ![i].allInput = h.allInput \o InputBytes(data)]
  /\ hashLast' = [op |-> "update", h |-> i, enc |-> data.enc,
                  ret |-> IF h.finalized THEN Throws ELSE Undefined, hit |-> FALSE,
                  first |-> FALSE, finalized |-> h.finalized, large |-> FALSE,
                  same |-> TRUE, added |-> FALSE]
  /\ UNCHANGED <<hashBuild, hashCache, notHash>>

\* hash.digest(encoding)
HashDigest(i, enc) ==
  LET r == WrappedDigest(hashBuild, hashers[i], enc, hashCache) IN
  /\ hashers' = [hashers EXCEPT ![i] = [r.h EXCEPT !.digested = TRUE]]
  /\ hashCache' = r.cache
  /\ hashLast' = [op |-> "digest", h |-> i, enc |-> enc, ret |-> r.ret, hit |-> r.hit,
                  first |-> ~hashers[i].digested, finalized |-> hashers[i].finalized,
                  large |-> TotalLen(hashers[i].chunks) >= HashMaxCachedLen,
                  same |-> r.cache = hashCache,
                  added |-> MapKeys(r.cache) \ MapKeys(hashCache) # {}]
  /\ UNCHANGED <<hashBuild, notHash>>

(***************************************************************************)
(* Buffer pool: BufferPool (part_003 599-647) and acquireBuffer /          *)
(* releaseBuffer of runtime-patch.js (part_001 790-819).                   *)
(* A Buffer is a view [mem, len] of the first len bytes of a memory block  *)
(* (buf.slice(0, n) is a new view of the same block).  The bytes of a      *)
(* block are followed in parts: part k runs from PartEnds[k-1] to          *)
(* PartEnds[k], the lengths a view can have; a block records the parts     *)
(* that hold a non-zero byte.                                              *)
(***************************************************************************)
MaxBufs == 3

SmallSize == 256
MediumSize == 4096
LargeSize == 65536

\* pools[tier].max (50, 20 and 10 in the source), scaled to the model
SmallMax == 2
MediumMax == 1
LargeMax == 1

Tiers == {"small", "medium", "large"}
TierSize(tier) ==
  CASE tier = "small" -> SmallSize [] tier = "medium" -> MediumSize
    [] tier = "large" -> LargeSize
TierMax(tier) ==
  CASE tier = "small" -> SmallMax [] tier = "medium" -> MediumMax
    [] tier = "large" -> LargeMax

\* The sizes asked of acquireBuffer: within the small tier, the small tier's
\* size class, within the medium and large tiers, above every tier.
Sizes == {10, 256, 300, 5000, 70000}

PartEnds == <<10, 256, 300, 5000, 70000>>
PartsIn(len) == {k \in 1..Len(PartEnds) : PartEnds[k] <= len}

NoTier == "none"

\* _getPoolForSize(size) / __getBufferPool(size)
GetPoolForSize(size) ==
  IF size <= SmallSize THEN "small"
  ELSE IF size <= MediumSize THEN "medium"
  ELSE IF size <= LargeSize THEN "large"
  ELSE NoTier

\* Buffer.allocUnsafe(cap).slice(0, n), and Buffer.allocUnsafe(n) when
\* cap = n: a new block of cap bytes that are not initialised (dirty: whether
\* they happen to be non-zero), and a Buffer over its first n bytes.
AllocUnsafe(cap, n, dirty, bufs, mem) ==
  [bufs |-> Append(bufs, [mem |-> Len(mem) + 1, len |-> n, rel |-> FALSE]),
   mem |-> Append(mem, IF dirty THEN PartsIn(cap) ELSE {}),
   ret |-> Len(bufs) + 1]

\* buf.slice(0, n): a new Buffer over the same block
Slice(b, n, bufs) ==
  [bufs |-> Append(bufs, [mem |-> bufs[b].mem, len |-> n, rel |-> FALSE]),
   ret |-> Len(bufs) + 1]

\* Whether a view holds only zero bytes.
IsZero(b, bufs, mem) == mem[bufs[b].mem] \cap PartsIn(bufs[b].len) = {}

\* An acquire that returns a view of the last free Buffer and leaves it in the
\* free list.
AcquireBufferNoPop(size, dirty, free, bufs, mem) ==
  LET tier == GetPoolForSize(size) IN
  IF tier = NoTier
  THEN LET a == AllocUnsafe(size, size, dirty, bufs, mem) IN
       [free |-> free, bufs |-> a.bufs, mem |-> a.mem, ret |-> a.ret, pooled |-> FALSE]
  ELSE IF Len(free[tier]) > 0
       THEN LET buf == free[tier][Len(free[tier])] IN
            IF bufs[buf].len >= size
            THEN LET v == Slice(buf, size, bufs) IN
                 [free |-> free, bufs |-> v.bufs, mem |-> mem, ret |-> v.ret,
                  pooled |-> TRUE]
            ELSE LET a == AllocUnsafe(size, size, dirty, bufs, mem) IN
                 [free |-> free, bufs |-> a.bufs, mem |-> a.mem, ret |-> a.ret,
                  pooled |-> FALSE]
       ELSE LET a == AllocUnsafe(TierSize(tier), size, dirty, bufs, mem) IN
            [free |-> free, bufs |-> a.bufs, mem |-> a.mem, ret |-> a.ret,
             pooled |-> FALSE]

\* acquireBuffer(size): free lists, Buffers and memory after the call, the
\* Buffer returned, and whether it is a view of a Buffer popped from a free list.
AcquireBuffer(size, dirty, free, bufs, mem) ==
  LET tier == GetPoolForSize(size) IN
  IF tier = NoTier
  THEN LET a == AllocUnsafe(size, size, dirty, bufs, mem) IN
       [free |-> free, bufs |-> a.bufs, mem |-> a.mem, ret |-> a.ret, pooled |-> FALSE]
  ELSE IF Len(free[tier]) > 0
       THEN LET buf == free[tier][Len(free[tier])]
                free1 == [free EXCEPT ![tier] = SubSeq(@, 1, Len(@) - 1)]
            IN IF bufs[buf].len >= size
               THEN LET v == Slice(buf, size, bufs) IN
                    [free |-> free1, bufs |-> v.bufs, mem |-> mem, ret |-> v.ret,
                     pooled |-> TRUE]
               ELSE LET a == AllocUnsafe(size, size, dirty, bufs, mem) IN
                    [free |-> free1, bufs |-> a.bufs, mem |-> a.mem, ret |-> a.ret,
                     pooled |-> FALSE]
       ELSE LET a == AllocUnsafe(TierSize(tier), size, dirty, bufs, mem) IN
            [free |-> free, bufs |-> a.bufs, mem |-> a.mem, ret |-> a.ret,
             pooled |-> FALSE]

\* A release that pushes the Buffer without zeroing it.
ReleaseBufferNoFill(b, free, bufs, mem) ==
  LET tier == GetPoolForSize(bufs[b].len) IN
  IF tier = NoTier \/ Len(free[tier]) >= TierMax(tier)
  THEN [free |-> free, mem |-> mem]
  ELSE [free |-> [free EXCEPT ![tier] = Append(@, b)], mem |-> mem]

\* A release that pushes the Buffer whatever the length of the free list.
ReleaseBufferNoMax(b, free, bufs, mem) ==
  LET tier == GetPoolForSize(bufs[b].len) IN
  IF tier = NoTier
  THEN [free |-> free, mem |-> mem]
  ELSE [free |-> [free EXCEPT ![tier] = Append(@, b)],
        mem |-> [mem EXCEPT ![bufs[b].mem] = @ \ PartsIn(bufs[b].len)]]

\* releaseBuffer(buf) for a Buffer: free lists and memory after the call.
ReleaseBuffer(b, free, bufs, mem) ==
  LET tier == GetPoolForSize(bufs[b].len) IN
  IF tier = NoTier \/ Len(free[tier]) >= TierMax(tier)
  THEN [free |-> free, mem |-> mem]
  ELSE [free |-> [free EXCEPT ![tier] = Append(@, b)],
        mem |-> [mem EXCEPT ![bufs[b].mem] = @ \ PartsIn(bufs[b].len)]]

\* wroteReleased: some caller wrote to a Buffer after releasing it;
\* releasedTwice: some Buffer was released more than once;
\* hadFree: at an acquire, the free list of the size's tier was not empty;
\* case: at a release, "toolong" for a Buffer longer than the largest tier,
\* "full" when the free list of its tier was at its maximum, "fits" otherwise;
\* kept: the release left every free list as it was.
NoPoolCall ==
  [op |-> "none", size |-> 0, buf |-> 0, pooled |-> FALSE, zero |-> TRUE,
   wroteReleased |-> FALSE, releasedTwice |-> FALSE, hadFree |-> FALSE,
   case |-> "", kept |-> TRUE]

\* The case of a release of Buffer b.
ReleaseCase(b, free, bufs) ==
  LET tier == GetPoolForSize(bufs[b].len) IN
  IF tier = NoTier THEN "toolong"
  ELSE IF Len(free[tier]) >= TierMax(tier) THEN "full" ELSE "fits"

PoolInit ==
  /\ poolFree = [t \in Tiers |-> <<>>]
  /\ poolBufs = <<>>
  /\ poolMem = <<>>
  /\ poolLast = NoPoolCall

\* One call acquireBuffer(size).  zero: the returned Buffer holds only zero
\* bytes when the call returns.
PoolAcquire(size, dirty) ==
  LET r == AcquireBuffer(size, dirty, poolFree, poolBufs, poolMem) IN
  /\ Len(r.bufs) <= MaxBufs
  /\ poolFree' = r.free
  /\ poolBufs' = r.bufs
  /\ poolMem' = r.mem
  /\ poolLast' = [poolLast EXCEPT !.op = "acquire", !.size = size, !.buf = r.ret,
                                  !.pooled = r.pooled,
                                  !.zero = IsZero(r.ret, r.bufs, r.mem),
                                  !.hadFree = /\ GetPoolForSize(size) # NoTier
                                              /\ Len(poolFree[GetPoolForSize(size)]) > 0,
                                  !.case = "", !.kept = TRUE]
  /\ UNCHANGED notPool

\* One call releaseBuffer(buf) with any Buffer a caller has a reference to,
\* released before or not.
PoolRelease(b) ==
  LET r == ReleaseBuffer(b, poolFree, poolBufs, poolMem) IN
  /\ poolFree' = r.free
  /\ poolMem' = r.mem
  /\ poolBufs' = [poolBufs EXCEPT ![b].rel = TRUE]
  /\ poolLast' = [poolLast EXCEPT !.op = "release", !.size = 0,
                                  !.buf = 0, !.pooled = FALSE, !.zero = TRUE,
                                  !.releasedTwice = @ \/ poolBufs[b].rel,
                                  !.hadFree = FALSE,
                                  !.case = ReleaseCase(b, poolFree, poolBufs),
                                  !.kept = (r.free = poolFree)]
  /\ UNCHANGED notPool

\* releaseBuffer(x) with x no Buffer: !Buffer.isBuffer(buf) returns at once.
PoolReleaseNonBuffer ==
  /\ poolLast.op # "releaseNonBuffer"
  /\ poolLast' = [poolLast EXCEPT !.op = "releaseNonBuffer", !.size = 0, !.buf = 0,
                                  !.pooled = FALSE, !.zero = TRUE, !.hadFree = FALSE,
                                  !.case = "", !.kept = TRUE]
  /\ UNCHANGED <<poolFree, poolBufs, poolMem, notPool>>

\* A caller fills a Buffer it has a reference to with non-zero bytes: buf.fill(1).
PoolWrite(b) ==
  /\ ~(PartsIn(poolBufs[b].len) \subseteq poolMem[poolBufs[b].mem])
  /\ poolMem' = [poolMem EXCEPT ![poolBufs[b].mem] = @ \cup PartsIn(poolBufs[b].len)]
  /\ poolLast' = [poolLast EXCEPT !.op = "write", !.size = 0, !.buf = 0,
                                  !.pooled = FALSE, !.zero = TRUE,
                                  !.wroteReleased = @ \/ poolBufs[b].rel,
                                  !.hadFree = FALSE, !.case = "", !.kept = TRUE]
  /\ UNCHANGED <<poolFree, poolBufs, notPool>>

PoolIdle ==
  /\ poolFree = [t \in Tiers |-> <<>>]
  /\ poolBufs = <<>>
  /\ poolMem = <<>>
  /\ poolLast = NoPoolCall

(***************************************************************************)
(* Async batcher: AsyncBatcher (part_003 667-721) and __AsyncBatcher of    *)
(* runtime-patch.js (part_001 824-865).  An item is one call of            *)
(* batch(key, operation, data); its number stands for its data and for the *)
(* caller waiting on its promise.  A timer is named by the item whose      *)
(* call scheduled it.                                                      *)
(***************************************************************************)
MaxItems == 3

DefaultMaxBatchSize == 100

\* options.maxBatchSize given to the constructor (0: not given)
BatchSizeOptions == {0, 1, 2}

BatchKeys == {"k1", "k2"}
Operations == {"opA", "opB"}
Errors == {1, 2}

\* this.maxBatchSize = options.maxBatchSize || 100
MaxBatchSizeOf(option) == IF option = 0 THEN DefaultMaxBatchSize ELSE option

\* The value a batch operation computes for one input, and undefined.
ResultFor(data) == 10 + data
NoResult == 0

\* The result lists an operation may resolve with for its inputs: one result
\* per input, one result too few, or none at all (an empty list, undefined).
ResultLists(inputs) ==
  {[i \in 1..Len(inputs) |-> ResultFor(inputs[i])],
   [i \in 1..(Len(inputs) - 1) |-> ResultFor(inputs[i])],
   <<>>}

\* A flush threshold that lets one more item in.
IsFullAbove(len, max) == len > max

\* batch.length >= this.maxBatchSize
IsFull(len, max) == len >= max

\* A timer is scheduled whatever the timers map holds.
NeedsTimerAlways(timers, key) == TRUE

\* No timer is ever scheduled.
NeedsTimerNever(timers, key) == FALSE

\* !this.timers.has(key)
NeedsTimer(timers, key) == timers[key] = 0

\* Every caller gets the first result.
ResultAtFirst(results, index) == IF Len(results) >= 1 THEN results[1] ELSE NoResult

\* results?.[index] (index counted from 1)
ResultAt(results, index) == IF index <= Len(results) THEN results[index] ELSE NoResult

\* What resolve(v) and reject(e) do to a promise: only the first call settles it.
Settle(item, state, v) ==
  IF item.state = "pending"
  THEN [item EXCEPT !.state = state, !.v = v, !.n = @ + 1]
  ELSE [item EXCEPT !.n = @ + 1]

\* batch.forEach((item, index) => item.resolve(results?.[index]))
ResolveAll(items, batch, results) ==
  [i \in 1..Len(items) |->
    IF \E j \in 1..Len(batch) : batch[j] = i
    THEN Settle(items[i], "resolved",
                ResultAt(results, CHOOSE j \in 1..Len(batch) : batch[j] = i))
    ELSE items[i]]

\* Only the first caller of the window is rejected.
RejectFirst(items, batch, error) ==
  [i \in 1..Len(items) |->
    IF batch[1] = i THEN Settle(items[i], "rejected", error) ELSE items[i]]

\* batch.forEach(item => item.reject(error))
RejectAll(items, batch, error) ==
  [i \in 1..Len(items) |->
    IF \E j \in 1..Len(batch) : batch[j] = i
    THEN Settle(items[i], "rejected", error)
    ELSE items[i]]

\* A flush that leaves the window in batches.
FlushKeepsWindow(key, operation, trigger, threw, bs, timers, host, items, log) ==
  LET timer == timers[key]
      host1 == IF timer # 0 THEN {t \in host : t.id # timer} ELSE host
      timers1 == [timers EXCEPT ![key] = 0]
      batch == bs[key]
  IN IF batch = <<>>
     THEN [batches |-> bs, timers |-> timers1, host |-> host1, items |-> items,
           log |-> log, flushed |-> FALSE]
     ELSE [batches |-> bs, timers |-> timers1, host |-> host1,
           items |-> IF threw # 0 THEN RejectAll(items, batch, threw) ELSE items,
           log |-> Append(log, [key |-> key, op |-> operation, items |-> batch,
                                trigger |-> trigger,
                                outcome |-> IF threw # 0 THEN "rejected" ELSE "pending",
                                results |-> <<>>, error |-> threw]),
           flushed |-> TRUE]

\* A flush that forgets the timer without cancelling it at the host.
FlushKeepsTimer(key, operation, trigger, threw, bs, timers, host, items, log) ==
  LET timers1 == [timers EXCEPT ![key] = 0]
      batch == bs[key]
  IN IF batch = <<>>
     THEN [batches |-> bs, timers |-> timers1, host |-> host, items |-> items,
           log |-> log, flushed |-> FALSE]
     ELSE [batches |-> [bs EXCEPT ![key] = <<>>], timers |-> timers1, host |-> host,
           items |-> IF threw # 0 THEN RejectAll(items, batch, threw) ELSE items,
           log |-> Append(log, [key |-> key, op |-> operation, items |-> batch,
                                trigger |-> trigger,
                                outcome |-> IF threw # 0 THEN "rejected" ELSE "pending",
                                results |-> <<>>, error |-> threw]),
           flushed |-> TRUE]

\* _flush(key, operation) up to its await: the timer of the key is cleared,
\* the window is removed and the operation is called with its inputs.
\* threw: the error the operation throws at the call (0: it returns a promise).
Flush(key, operation, trigger, threw, bs, timers, host, items, log) ==
  LET timer == timers[key]
      host1 == IF timer # 0 THEN {t \in host : t.id # timer} ELSE host
      timers1 == [timers EXCEPT ![key] = 0]
      batch == bs[key]
  IN IF batch = <<>>
     THEN [batches |-> bs, timers |-> timers1, host |-> host1, items |-> items,
           log |-> log, flushed |-> FALSE]
     ELSE [batches |-> [bs EXCEPT ![key] = <<>>], timers |-> timers1, host |-> host1,
           items |-> IF threw # 0 THEN RejectAll(items, batch, threw) ELSE items,
           log |-> Append(log, [key |-> key, op |-> operation, items |-> batch,
                                trigger |-> trigger,
                                outcome |-> IF threw # 0 THEN "rejected" ELSE "pending",
                                results |-> <<>>, error |-> threw]),
           flushed |-> TRUE]

NewTurn(bs) ==
  [enq |-> [k \in BatchKeys |-> 0], sized |-> [k \in BatchKeys |-> 0],
   base |-> [k \in BatchKeys |-> Len(bs[k])]]

BatcherInit ==
  /\ batMax \in {MaxBatchSizeOf(o) : o \in BatchSizeOptions}
  /\ batches = [k \in BatchKeys |-> <<>>]
  /\ batTimers = [k \in BatchKeys |-> 0]
  /\ batHost = {}
  /\ batItems = <<>>
  /\ batLog = <<>>
  /\ batTurn = NewTurn([k \in BatchKeys |-> <<>>])

\* One call batch(key, operation, data), in the turn that is running.
Batch(key, operation, threw) ==
  LET id == Len(batItems) + 1
      items1 == Append(batItems, [key |-> key, op |-> operation, state |-> "pending",
                                  v |-> NoResult, n |-> 0])
      bs1 == [batches EXCEPT ![key] = Append(@, id)]
      full == IsFull(Len(bs1[key]), batMax)
      f == Flush(key, operation, "size", threw, bs1, batTimers, batHost, items1, batLog)
      schedule == ~full /\ NeedsTimer(batTimers, key)
  IN /\ id <= MaxItems
     /\ threw # 0 => full
     /\ batMax' = batMax
     /\ batches' = IF full THEN f.batches ELSE bs1
     /\ batTimers' = IF full THEN f.timers
                     ELSE IF schedule THEN [batTimers EXCEPT ![key] = id] ELSE batTimers
     /\ batHost' = IF full THEN f.host
                   ELSE IF schedule
                        THEN batHost \cup {[id |-> id, key |-> key, op |-> operation]}
                        ELSE batHost
     /\ batItems' = IF full THEN f.items ELSE items1
     /\ batLog' = IF full THEN f.log ELSE batLog
     /\ batTurn' = [batTurn EXCEPT !.enq[key] = @ + 1,
                                   !.sized[key] = IF full THEN @ + 1 ELSE @]
     /\ UNCHANGED notBat

\* The host fires a scheduled timer: its callback runs _flush(key, operation)
\* in a turn of its own.
TimerFire(t, threw) ==
  LET f == Flush(t.key, t.op, "timer", threw, batches, batTimers, batHost \ {t},
                 batItems, batLog)
  IN /\ t \in batHost
     /\ batMax' = batMax
     /\ batches' = f.batches
     /\ batTimers' = f.timers
     /\ batHost' = f.host
     /\ batItems' = f.items
     /\ batLog' = f.log
     /\ batTurn' = NewTurn(f.batches)
     /\ UNCHANGED notBat

\* The promise an operation returned is fulfilled: _flush resumes after its
\* await and distributes the results.
OperationResolves(c, results) ==
  /\ batLog[c].outcome = "pending"
  /\ results \in ResultLists(batLog[c].items)
  /\ batItems' = ResolveAll(batItems, batLog[c].items, results)
  /\ batLog' = [batLog EXCEPT ![c].outcome = "resolved", ![c].results = results]
  /\ batTurn' = NewTurn(batches)
  /\ UNCHANGED <<batMax, batches, batTimers, batHost, notBat>>

\* The promise an operation returned is rejected: _flush resumes in its catch.
OperationRejects(c, error) ==
  /\ batLog[c].outcome = "pending"
  /\ batItems' = RejectAll(batItems, batLog[c].items, error)
  /\ batLog' = [batLog EXCEPT ![c].outcome = "rejected", ![c].error = error]
  /\ batTurn' = NewTurn(batches)
  /\ UNCHANGED <<batMax, batches, batTimers, batHost, notBat>>

BatcherIdle ==
  /\ batMax = DefaultMaxBatchSize
  /\ batches = [k \in BatchKeys |-> <<>>]
  /\ batTimers = [k \in BatchKeys |-> 0]
  /\ batHost = {}
  /\ batItems = <<>>
  /\ batLog = <<>>
  /\ batTurn = NewTurn([k \in BatchKeys |-> <<>>])

(***************************************************************************)
(* Installer: applyPatches of the v2.1.29 module (part_003 744-846) and of *)
(* claude-code-cpu-patches.js (241-293), which both run it once on load.   *)
(* The binding of a symbol is the stack of wrappers a call passes through  *)
(* before it reaches the original, outermost first.                        *)
(***************************************************************************)
MaxInstalls == 3
MaxCalls == 3

InstBuilds == {"v2129", "cpu"}

Symbols ==
  {"crypto.createHash", "JSON.stringify", "JSON.parse", "RegExp", "Object.values",
   "Array.prototype.push", "Array.prototype.indexOf"}

\* The symbols applyPatches of a build assigns.
Intercepted(build) ==
  IF build = "v2129" THEN Symbols ELSE {"crypto.createHash"}

\* The wrapper applyPatches assigns to a symbol whose original was stored
\* when the module was loaded (originalObjectValues, originalPush,
\* originalIndexOf, OriginalRegExp, _originalJSONStringify, _originalJSONParse):
\* it delegates to the stored original whatever the symbol is bound to.
WrapStored(symbol, binding) == <<symbol>>

\* The wrapper applyPatches assigns to crypto.createHash:
\* const originalCreateHash = crypto.createHash is read at each installation,
\* so the wrapper delegates to what the symbol is bound to at that time.
WrapCurrent(symbol, binding) == <<symbol>> \o binding

\* The bindings after one run of applyPatches.
ApplyPatchesOp(build, bindings) ==
  [s \in Symbols |->
    IF s \notin Intercepted(build) THEN bindings[s]
    ELSE IF s = "crypto.createHash" THEN WrapCurrent(s, bindings[s])
    ELSE WrapStored(s, bindings[s])]

NoInstCall == [op |-> "load", symbol |-> "", passed |-> 0, reached |-> 0, served |-> FALSE]

\* The state after the module was loaded: applyPatches has run once.
InstallerInit ==
  /\ instBuild \in InstBuilds
  /\ instBindings = ApplyPatchesOp(instBuild, [s \in Symbols |-> <<>>])
  /\ instInstalls = 1
  /\ instReached = [s \in Symbols |-> 0]
  /\ instLast = NoInstCall

\* A caller runs applyPatches again.
ApplyPatches ==
  /\ instInstalls < MaxInstalls
  /\ instBindings' = ApplyPatchesOp(instBuild, instBindings)
  /\ instInstalls' = instInstalls + 1
  /\ instLast' = [NoInstCall EXCEPT !.op = "install"]
  /\ UNCHANGED <<instBuild, instReached, notInst>>

RECURSIVE TotalReached(_, _)
\* How many times the originals of a set of symbols have been invoked.
TotalReached(reached, symbols) ==
  IF symbols = {} THEN 0
  ELSE LET s == CHOOSE x \in symbols : TRUE
       IN reached[s] + TotalReached(reached, symbols \ {s})

\* Whether a wrapper can answer a call by itself (from its cache or by its
\* own algorithm) without invoking the original; the crypto.createHash
\* wrapper always creates the hash object through what it wraps.
CanServe(symbol) == symbol # "crypto.createHash"

\* One logical call of a symbol.  served: the outermost wrapper answers it by
\* itself.  Otherwise the call passes through every wrapper of the binding,
\* each delegating once, and reaches the original once.
Call(symbol, served) ==
  LET binding == instBindings[symbol]
      reached == IF served THEN 0 ELSE 1
  IN /\ TotalReached(instReached, Symbols) < MaxCalls
     /\ served => (binding # <<>> /\ CanServe(symbol))
     /\ instReached' = [instReached EXCEPT ![symbol] = @ + reached]
     /\ instLast' = [op |-> "call", symbol |-> symbol,
                     passed |-> IF served THEN 1 ELSE Len(binding),
                     reached |-> reached, served |-> served]
     /\ UNCHANGED <<instBuild, instBindings, instInstalls, notInst>>

InstallerIdle ==
  /\ instBuild = "v2129"
  /\ instBindings = [s \in Symbols |-> <<>>]
  /\ instInstalls = 0
  /\ instReached = [s \in Symbols |-> 0]
  /\ instLast = NoInstCall

(***************************************************************************)
(* Serialize adapter: patchedStringify (part_001 222-233),                 *)
(* JSONCache.stringify (part_003 478-508) and JSON.stringify of            *)
(* runtime-patch.js (part_001 720-740, which shares __jsonCache with       *)
(* JSON.parse).  Objects live in jsonHeap; the installed build is          *)
(* jsonBuild.  A text is written as the original writes it, with a:1 for   *)
(* "a":1.                                                                  *)
(***************************************************************************)
Str(n) == [t |-> "str", v |-> n]
True == [t |-> "bool", v |-> 1]
Null == [t |-> "null", v |-> 0]

\* The objects and the calls of stringify in a run.
MaxStrObjects == 2
MaxStrCalls == 3

\* The primitives given to stringify: 1, '1', true, null
PrimInputs == {Prim(1), Str(1), True, Null}

\* The space argument is 0 for none, or 2.  The replacer argument is none
\* (FALSE) or the function (key, value) => value === 1 ? 2 : value (TRUE).

Digits(n) ==
  CASE n = 0 -> "0" [] n = 1 -> "1" [] n = 2 -> "2" [] n = 7 -> "7" [] n = 9 -> "9"

\* String(value) of a primitive
StringOf(v) ==
  CASE v.t = "prim" -> Digits(v.v)
    [] v.t = "str" -> Digits(v.v)
    [] v.t = "bool" -> "true"
    [] v.t = "null" -> "null"

\* The text of a primitive in JSON
PrimText(v) ==
  CASE v.t = "prim" -> Digits(v.v)
    [] v.t = "str" -> "\"" \o Digits(v.v) \o "\""
    [] v.t = "bool" -> "true"
    [] v.t = "null" -> "null"

ReplacerSource == "(key, value) => value === 1 ? 2 : value"

Replaced(v, replacer) == IF replacer /\ v = Prim(1) THEN Prim(2) ELSE v

Indent(space, depth) ==
  IF space = 0 THEN ""
  ELSE CASE depth = 0 -> "\n" [] depth = 1 -> "\n  " [] depth >= 2 -> "\n    "

RECURSIVE ValueText(_, _, _, _, _)
ValueText(v, replacer, space, depth, heap) ==
  LET w == Replaced(v, replacer) IN
  IF w.t # "ref" THEN PrimText(w)
  ELSE LET o == heap[w.v]
           inner == ValueText(o.a, replacer, space, depth + 1, heap)
       IN IF o.kind = "obj"
          THEN "{" \o Indent(space, depth + 1) \o "a:" \o (IF space = 0 THEN "" ELSE " ")
                   \o inner \o Indent(space, depth) \o "}"
          ELSE "[" \o Indent(space, depth + 1) \o inner \o Indent(space, depth) \o "]"

\* The original JSON.stringify(value, replacer, space)
OrigStringify(value, replacer, space, heap) == ValueText(value, replacer, space, 0, heap)

RECURSIVE Deep(_, _)
\* The content of a value, references followed.
Deep(v, heap) ==
  IF v.t # "ref" THEN <<v.t, v.v>>
  ELSE <<heap[v.v].kind, Deep(heap[v.v].a, heap)>>

SpaceKey(space) == IF space = 0 THEN "" ELSE Digits(space)

\* patchedStringify of v2.1.45.  read, wrote: whether a cache was consulted,
\* and whether one was written.
PatchedStringify2145(value, replacer, space, heap, oc) ==
  IF value.t = "ref" /\ ~replacer /\ space = 0
  THEN IF MapHas(oc, value.v)
       THEN [oc |-> oc, ret |-> MapGet(oc, value.v), read |-> TRUE, wrote |-> FALSE]
       ELSE LET result == OrigStringify(value, replacer, space, heap) IN
            [oc |-> MapSet(oc, value.v, result), ret |-> result, read |-> TRUE,
             wrote |-> TRUE]
  ELSE [oc |-> oc, ret |-> OrigStringify(value, replacer, space, heap),
        read |-> FALSE, wrote |-> FALSE]

\* JSONCache.stringify of v2.1.29
PatchedStringify2129(value, replacer, space, heap, oc, sc) ==
  IF value.t = "ref"
  THEN IF /\ MapHas(oc, value.v)
          /\ MapGet(oc, value.v).replacer = replacer
          /\ MapGet(oc, value.v).space = space
       THEN [oc |-> oc, sc |-> sc, ret |-> MapGet(oc, value.v).result,
             read |-> TRUE, wrote |-> FALSE]
       ELSE LET result == OrigStringify(value, replacer, space, heap) IN
            [oc |-> MapSet(oc, value.v,
                           [replacer |-> replacer, space |-> space, result |-> result]),
             sc |-> sc, ret |-> result, read |-> TRUE, wrote |-> TRUE]
  ELSE LET key == <<StringOf(value), "|", IF replacer THEN ReplacerSource ELSE "",
                    "|", SpaceKey(space)>>
       IN IF MapHas(sc, key)
          THEN [oc |-> oc, sc |-> sc, ret |-> MapGet(sc, key), read |-> TRUE,
                wrote |-> FALSE]
          ELSE LET result == OrigStringify(value, replacer, space, heap) IN
               [oc |-> oc, sc |-> FifoInsert(sc, JsonCacheMax, key, result),
                ret |-> result, read |-> TRUE, wrote |-> TRUE]

\* JSON.stringify of runtime-patch.js; jc is __jsonCache, which JSON.parse uses too.
PatchedStringifyRuntime(value, replacer, space, heap, jc) ==
  IF value.t = "ref"
  THEN [jc |-> jc, ret |-> OrigStringify(value, replacer, space, heap),
        read |-> FALSE, wrote |-> FALSE]
  ELSE LET key == <<"s:", StringOf(value), "|", SpaceKey(space)>> IN
       IF MapHas(jc, key)
       THEN [jc |-> jc, ret |-> MapGet(jc, key), read |-> TRUE, wrote |-> FALSE]
       ELSE LET result == OrigStringify(value, replacer, space, heap) IN
            [jc |-> FifoInsert(jc, JsonCacheMax, key, result), ret |-> result,
             read |-> TRUE, wrote |-> TRUE]

\* The patched JSON.stringify of a build: the caches after the call and the text.
PatchedStringify(build, value, replacer, space, heap, oc, sc, jc) ==
  CASE build = "v2145" ->
         LET r == PatchedStringify2145(value, replacer, space, heap, oc) IN
         [oc |-> r.oc, sc |-> sc, jc |-> jc, ret |-> r.ret, read |-> r.read,
          wrote |-> r.wrote]
    [] build = "v2129" ->
         LET r == PatchedStringify2129(value, replacer, space, heap, oc, sc) IN
         [oc |-> r.oc, sc |-> r.sc, jc |-> jc, ret |-> r.ret, read |-> r.read,
          wrote |-> r.wrote]
    [] build = "runtime" ->
         LET r == PatchedStringifyRuntime(value, replacer, space, heap, jc) IN
         [oc |-> oc, sc |-> sc, jc |-> r.jc, ret |-> r.ret, read |-> r.read,
          wrote |-> r.wrote]

\* The values a caller can pass: a primitive or an object it holds.
StringifyInputs(heap) == PrimInputs \cup {Ref(i) : i \in 1..Len(heap)}

\* The formatting options of a call: none, a replacer, or a space.
Formats == {<<FALSE, 0>>, <<TRUE, 0>>, <<FALSE, 2>>}

\* object: the value given is an object or array; formatted: a replacer or
\* a space was given.
NoStrCall ==
  [op |-> "none", object |-> FALSE, formatted |-> FALSE, ret |-> "",
   expect |-> "", read |-> FALSE, wrote |-> FALSE, back |-> <<>>, content |-> <<>>,
   calls |-> 0]

StringifyInit ==
  /\ JsonInit
  /\ strObjCache = <<>>
  /\ strCache = <<>>
  /\ strLast = NoStrCall

\* A caller creates the object {a: p} or the array [p].
JsonNewObject(kind, p) ==
  /\ Len(jsonHeap) < MaxStrObjects
  /\ jsonHeap' = Append(jsonHeap, Obj(kind, p))
  /\ strLast' = [NoStrCall EXCEPT !.op = "new", !.calls = strLast.calls]
  /\ UNCHANGED <<jsonBuild, jsonCache, jsonLast, strObjCache, strCache, notJsonStr>>

\* One call JSON.stringify(value, replacer, space).  expect is what the
\* original returns for the same arguments at the time of the call.
JsonStringify(value, replacer, space) ==
  LET r == PatchedStringify(jsonBuild, value, replacer, space, jsonHeap,
                            strObjCache, strCache, jsonCache)
  IN /\ value \in StringifyInputs(jsonHeap)
     /\ strLast.calls < MaxStrCalls
     /\ strObjCache' = r.oc
     /\ strCache' = r.sc
     /\ jsonCache' = r.jc
     /\ strLast' = [op |-> "stringify", object |-> value.t = "ref",
                    formatted |-> replacer \/ space # 0, ret |-> r.ret,
                    expect |-> OrigStringify(value, replacer, space, jsonHeap),
                    read |-> r.read, wrote |-> r.wrote, back |-> <<>>, content |-> <<>>,
                    calls |-> strLast.calls + 1]
     /\ UNCHANGED <<jsonBuild, jsonHeap, jsonLast, notJsonStr>>

\* JSON.parse(JSON.stringify(x)).  back is the content of the value returned,
\* content that of x, both as they are when the call returns.
JsonRoundTrip(x) ==
  LET s == PatchedStringify(jsonBuild, x, FALSE, 0, jsonHeap, strObjCache, strCache,
                            jsonCache)
      r == PatchedParse(jsonBuild, s.ret, FALSE, jsonHeap, s.jc)
  IN /\ x \in StringifyInputs(jsonHeap)
     /\ strLast.calls < MaxStrCalls
     /\ Len(r.heap) <= MaxStrObjects
     /\ strObjCache' = s.oc
     /\ strCache' = s.sc
     /\ jsonCache' = r.cache
     /\ jsonHeap' = r.heap
     /\ strLast' = [op |-> "roundtrip", object |-> x.t = "ref", formatted |-> FALSE,
                    ret |-> s.ret, expect |-> OrigStringify(x, FALSE, 0, jsonHeap),
                    read |-> s.read, wrote |-> s.wrote,
                    back |-> Deep(r.ret, r.heap), content |-> Deep(x, r.heap),
                    calls |-> strLast.calls + 1]
     /\ UNCHANGED <<jsonBuild, jsonLast, notJsonStr>>

StringifyIdle ==
  /\ strObjCache = <<>>
  /\ strCache = <<>>
  /\ strLast = NoStrCall

(***************************************************************************)
(* Module load of claude-code-cpu-patches-2.1.45.js (part_001 25-316):     *)
(* the blocks of the file run once, in order.  NODE_OPTIONS is a sequence  *)
(* of pieces: an option [name, value] (value 0 for an option without one)  *)
(* or a single space.                                                      *)
(***************************************************************************)
DefaultMaxHeap == 2048

Sp == [name |-> " ", value |-> 0]
Opt(name, value) == [name |-> name, value |-> value]
HeapDash(mb) == Opt("--max-old-space-size", mb)
HeapUnderscore(mb) == Opt("--max_old_space_size", mb)
Inspect == Opt("--inspect", 0)
NoWarnings == Opt("--no-warnings", 0)

\* Values of NODE_OPTIONS before the module loads (<<>>: unset or empty).
NodeOptionsInputs ==
  {<<>>,
   <<HeapDash(8192)>>,
   <<Inspect, Sp, HeapDash(8192)>>,
   <<HeapDash(8192), Sp, Inspect, Sp, NoWarnings>>,
   <<HeapDash(4096), Sp, Inspect, Sp, HeapDash(8192)>>,
   <<HeapUnderscore(8192)>>,
   <<Inspect, Sp, NoWarnings>>}

\* CLAUDE_PATCH_MAX_HEAP_MB (0: not set)
MaxHeapInputs == {0, 1024}

\* typeof require, and whether require('crypto') returns
RequireOutcomes == {"ok", "undefined", "throws"}

\* .replace(/--max-old-space-size=\d+/g, '')
RemoveHeapDirectives(opts) ==
  SelectSeq(opts, LAMBDA piece : piece.name # "--max-old-space-size")

RECURSIVE TrimStart(_)
TrimStart(s) == IF s # <<>> /\ Head(s) = Sp THEN TrimStart(Tail(s)) ELSE s

RECURSIVE TrimEnd(_)
TrimEnd(s) ==
  IF s # <<>> /\ s[Len(s)] = Sp THEN TrimEnd(SubSeq(s, 1, Len(s) - 1)) ELSE s

\* String.prototype.trim
Trim(s) == TrimEnd(TrimStart(s))

\* process.env.CLAUDE_PATCH_MAX_HEAP_MB || '2048'
MaxHeapOf(maxHeapMb) == IF maxHeapMb = 0 THEN DefaultMaxHeap ELSE maxHeapMb

\* (opts + ' --max-old-space-size=' + maxHeap).trim()
HeapCap(nodeOptions, maxHeapMb) ==
  Trim(RemoveHeapDirectives(nodeOptions) \o <<Sp, HeapDash(MaxHeapOf(maxHeapMb))>>)

Blocks ==
  <<"timers", "heap", "telemetry", "env", "hash", "json", "regex", "expose", "done">>

LoaderInit ==
  /\ ldEnv \in [noThrottle : BOOLEAN, remote : BOOLEAN, disableTelemetry : BOOLEAN,
                enableTelemetry : BOOLEAN, maxHeapMb : MaxHeapInputs,
                require : RequireOutcomes, nodeOptions : NodeOptionsInputs]
  /\ ldPc = 1
  /\ ldNodeOptions = ldEnv.nodeOptions
  /\ ldTelemetryOff = ldEnv.disableTelemetry
  /\ patchCount = 0
  /\ ldActive = {}
  /\ ldPublished = [set |-> FALSE, patchCount |-> 0, logged |-> 0]

\* Patches 1 and 2: globalThis.setInterval = patchedSetInterval; the wrapper
\* throttles only when _throttleTimers is true.
LoadTimers ==
  /\ Blocks[ldPc] = "timers"
  /\ ldPc' = ldPc + 1
  /\ patchCount' = patchCount + 2
  /\ ldActive' = ldActive \cup {"GC interval"} \cup
                 (IF ldEnv.noThrottle THEN {} ELSE {"timer throttle"})
  /\ UNCHANGED <<ldEnv, ldNodeOptions, ldTelemetryOff, ldPublished, notLoad>>

\* Patch 3: heap cap in remote mode
LoadHeapCap ==
  /\ Blocks[ldPc] = "heap"
  /\ ldPc' = ldPc + 1
  /\ ldNodeOptions' = IF ldEnv.remote THEN HeapCap(ldNodeOptions, ldEnv.maxHeapMb)
                      ELSE ldNodeOptions
  /\ patchCount' = patchCount + 1
  /\ ldActive' = ldActive \cup (IF ldEnv.remote THEN {"heap cap"} ELSE {})
  /\ UNCHANGED <<ldEnv, ldTelemetryOff, ldPublished, notLoad>>

\* Patch 4: telemetry gate
LoadTelemetryGate ==
  LET gate == ~ldTelemetryOff /\ ~ldEnv.enableTelemetry IN
  /\ Blocks[ldPc] = "telemetry"
  /\ ldPc' = ldPc + 1
  /\ ldTelemetryOff' = (ldTelemetryOff \/ gate)
  /\ patchCount' = patchCount + 1
  /\ ldActive' = ldActive \cup (IF gate THEN {"telemetry gate"} ELSE {})
  /\ UNCHANGED <<ldEnv, ldNodeOptions, ldPublished, notLoad>>

\* Patch 5: env snapshot cache
LoadEnvCache ==
  /\ Blocks[ldPc] = "env"
  /\ ldPc' = ldPc + 1
  /\ patchCount' = patchCount + 1
  /\ ldActive' = ldActive \cup {"env cache"}
  /\ UNCHANGED <<ldEnv, ldNodeOptions, ldTelemetryOff, ldPublished, notLoad>>

\* Patch 6: crypto.createHash is replaced only when require is defined and
\* require('crypto') does not throw; the count is raised after the block.
LoadHashCache ==
  /\ Blocks[ldPc] = "hash"
  /\ ldPc' = ldPc + 1
  /\ patchCount' = patchCount + 1
  /\ ldActive' = ldActive \cup (IF ldEnv.require = "ok" THEN {"hash cache"} ELSE {})
  /\ UNCHANGED <<ldEnv, ldNodeOptions, ldTelemetryOff, ldPublished, notLoad>>

\* Patch 7: JSON.stringify and JSON.parse
LoadJsonCache ==
  /\ Blocks[ldPc] = "json"
  /\ ldPc' = ldPc + 1
  /\ patchCount' = patchCount + 1
  /\ ldActive' = ldActive \cup {"JSON cache"}
  /\ UNCHANGED <<ldEnv, ldNodeOptions, ldTelemetryOff, ldPublished, notLoad>>

\* Patch 8: globalThis.RegExp
LoadRegexCache ==
  /\ Blocks[ldPc] = "regex"
  /\ ldPc' = ldPc + 1
  /\ patchCount' = patchCount + 1
  /\ ldActive' = ldActive \cup {"regex cache"}
  /\ UNCHANGED <<ldEnv, ldNodeOptions, ldTelemetryOff, ldPublished, notLoad>>

\* globalThis.__claude_v2145_patches = { patchCount: _patchCount, ... } and
\* the log line 'Loaded — N patches active'
Expose ==
  /\ Blocks[ldPc] = "expose"
  /\ ldPc' = ldPc + 1
  /\ ldPublished' = [set |-> TRUE, patchCount |-> patchCount, logged |-> patchCount]
  /\ UNCHANGED <<ldEnv, ldNodeOptions, ldTelemetryOff, patchCount, ldActive, notLoad>>

LoaderIdle ==
  /\ ldEnv = [noThrottle |-> FALSE, remote |-> FALSE, disableTelemetry |-> FALSE,
              enableTelemetry |-> FALSE, maxHeapMb |-> 0, require |-> "ok",
              nodeOptions |-> <<>>]
  /\ ldPc = 1
  /\ ldNodeOptions = <<>>
  /\ ldTelemetryOff = FALSE
  /\ patchCount = 0
  /\ ldActive = {}
  /\ ldPublished = [set |-> FALSE, patchCount |-> 0, logged |-> 0]

(***************************************************************************)
(* Array.prototype.push: fastArrayPush / optimizedPush (part_003 286-308)  *)
(* and the same of runtime-patch.js (part_001 626-646).  An element is a   *)
(* number Prim(n) or an array Arr(elements); a returned value is a number  *)
(* or the receiver itself.                                                 *)
(***************************************************************************)
MaxPushCalls == 2

SpreadAbove == 10

\* 1000 in the source: the length from which fastArrayPush loops over the
\* source instead of applying push to it.
ApplyBelow == 13

Arr(elements) == [t |-> "array", v |-> elements]
Number(n) == [t |-> "number", v |-> n]
This == [t |-> "this", v |-> 0]

\* The arguments given to push: numbers, a short array, an array of 11
\* elements and one as long as the looping branch of fastArrayPush asks for.
PushArguments ==
  <<Prim(1), Prim(2), Arr(<<Prim(1), Prim(2)>>),
    Arr([i \in 1..(SpreadAbove + 1) |-> Prim(1)]),
    Arr([i \in 1..ApplyBelow |-> Prim(2)])>>

\* The argument lists of a call: no argument, one, or two.
PushArgLists ==
  {<<>>} \cup {<<PushArguments[i]>> : i \in 1..Len(PushArguments)}
         \cup {<<PushArguments[i], PushArguments[j]>> :
                 i \in 1..Len(PushArguments), j \in 1..2}

\* originalPush.apply(this, args): every argument becomes one element; the
\* new length is returned.
OriginalPush(this, args) == [arr |-> this \o args, ret |-> Number(Len(this) + Len(args))]

RECURSIVE OptimizedPush(_, _)
RECURSIVE PushEach(_, _)

\* for (i...) target.push(source[i]): the patched push, one element a call
PushEach(target, source) ==
  IF source = <<>> THEN target
  ELSE PushEach(OptimizedPush(target, <<Head(source)>>).arr, Tail(source))

\* fastArrayPush(target, source); target.push is the patched push.
FastArrayPush(target, source) ==
  IF Len(source) = 0 THEN target
  ELSE IF Len(source) < ApplyBelow THEN OptimizedPush(target, source).arr
  ELSE PushEach(target, source)

\* optimizedPush(...args) with this = the receiver
OptimizedPush(this, args) ==
  IF Len(args) = 1 /\ args[1].t = "array" /\ Len(args[1].v) > SpreadAbove
  THEN [arr |-> FastArrayPush(this, args[1].v), ret |-> This]
  ELSE OriginalPush(this, args)

NoPushCall == [op |-> "none", args |-> <<>>, pre |-> <<>>, ret |-> Number(0), calls |-> 0]

PushInit ==
  /\ pushArr \in {<<>>, <<Prim(1)>>}
  /\ pushLast = NoPushCall

\* One call arr.push(...args) on the receiver.
ArrayPush(args) ==
  LET r == OptimizedPush(pushArr, args) IN
  /\ pushLast.calls < MaxPushCalls
  /\ pushArr' = r.arr
  /\ pushLast' = [op |-> "push", args |-> args, pre |-> pushArr, ret |-> r.ret,
                  calls |-> pushLast.calls + 1]
  /\ UNCHANGED notPush

PushIdle ==
  /\ pushArr = <<>>
  /\ pushLast = NoPushCall

(***************************************************************************)
(* Array.prototype.indexOf: optimizedIndexOf (part_003 361-382) and the    *)
(* same of runtime-patch.js (part_001 651-671).  Elements are objects      *)
(* Ref(i) and a number Prim(1); an index kept in a Map is Prim(i), i       *)
(* counted from 0 as in the code.                                          *)
(***************************************************************************)
MaxIxLen == 3

\* 100 in the source: the length from which the Map is used.
IxThreshold == 2

IxElements == {Ref(1), Ref(2), Prim(1)}

\* fromIndex: not given, or a number
FromIndexes == {Undefined} \cup {Prim(n) : n \in -1..2}

IsObject(x) == x.t \in {"ref", "null"}

\* for (i...) if (!map.has(arr[i])) map.set(arr[i], i): the first index of
\* every element.
RECURSIVE BuildIndex(_, _, _)
BuildIndex(arr, i, m) ==
  IF i >= Len(arr) THEN m
  ELSE BuildIndex(arr, i + 1,
                  IF MapHas(m, arr[i + 1]) THEN m ELSE MapSet(m, arr[i + 1], Prim(i)))

\* The native indexOf: the first index not below the start that holds the
\* element, the start counted from the end for a negative fromIndex.
OriginalIndexOf(arr, searchElement, fromIndex) ==
  LET n == IF fromIndex = Undefined THEN 0 ELSE fromIndex.v
      k == IF n >= 0 THEN n ELSE IF Len(arr) + n > 0 THEN Len(arr) + n ELSE 0
      found == {i \in k..(Len(arr) - 1) : arr[i + 1] = searchElement}
  IN IF found = {} THEN -1 ELSE CHOOSE i \in found : \A j \in found : i <= j

NoIndexMap == [set |-> FALSE, m |-> <<>>]

\* optimizedIndexOf: the value returned and __indexMap after the call
OptimizedIndexOf(arr, map, searchElement, fromIndex) ==
  IF Len(arr) < IxThreshold \/ ~IsObject(searchElement)
  THEN [ret |-> OriginalIndexOf(arr, searchElement, fromIndex), map |-> map]
  ELSE LET m == IF map.set THEN map.m ELSE BuildIndex(arr, 0, <<>>)
           idx == MapGet(m, searchElement)
           truthy == fromIndex # Undefined /\ fromIndex.v # 0
       IN [ret |-> IF idx = Undefined THEN -1
                   ELSE IF truthy /\ idx.v < fromIndex.v THEN -1
                   ELSE idx.v,
           map |-> [set |-> TRUE, m |-> m]]

NoIndexCall == [op |-> "none", search |-> Undefined, from |-> Undefined, ret |-> -1, native |-> -1, mapped |-> FALSE, stale |-> FALSE]

IndexInit ==
  /\ ixArr = <<>>
  /\ ixMap = NoIndexMap
  /\ ixLast = NoIndexCall

\* arr.indexOf(searchElement, fromIndex)
ArrayIndexOf(searchElement, fromIndex) ==
  LET r == OptimizedIndexOf(ixArr, ixMap, searchElement, fromIndex) IN
  /\ ixMap' = r.map
  /\ ixLast' = [op |-> "indexOf", search |-> searchElement, from |-> fromIndex,
                ret |-> r.ret,
                native |-> OriginalIndexOf(ixArr, searchElement, fromIndex),
                mapped |-> Len(ixArr) >= IxThreshold /\ IsObject(searchElement),
                stale |-> ixMap.set /\ ixMap.m # BuildIndex(ixArr, 0, <<>>)]
  /\ UNCHANGED <<ixArr>>
  /\ UNCHANGED notIndex

\* A mutation between calls: arr[arr.length] = x
ArrayAppend(x) ==
  /\ Len(ixArr) < MaxIxLen
  /\ ixArr' = Append(ixArr, x)
  /\ ixLast' = [ixLast EXCEPT !.op = "append"]
  /\ UNCHANGED <<ixMap>>
  /\ UNCHANGED notIndex

\* A mutation between calls: arr[i] = x
ArrayAssign(i, x) ==
  /\ i < Len(ixArr)
  /\ ixArr' = [ixArr EXCEPT ![i + 1] = x]
  /\ ixLast' = [ixLast EXCEPT !.op = "assign"]
  /\ UNCHANGED <<ixMap>>
  /\ UNCHANGED notIndex

IndexIdle ==
  /\ ixArr = <<>>
  /\ ixMap = NoIndexMap
  /\ ixLast = NoIndexCall

(***************************************************************************)
(* StringBuilder (part_003 13-45, claude-code-cpu-patches.js 13-45).  A    *)
(* string is a TLA+ string; the array chunks is a sequence, index i of the *)
(* code at place i + 1.                                                    *)
(***************************************************************************)
MaxSbAppends == 3

\* new StringBuilder(capacity)
SbCapacities == {1, 2, 3}

\* The values appended: 1, '2', true, null, undefined
SbInputs == {Prim(1), Str(2), True, Null, Undefined}

Hole == "<empty>"

\* new Array(n)
NewArray(n) == [i \in 1..n |-> Hole]

\* arr[i] = s, the array growing when i is its length
ArraySet(arr, i, s) == IF i < Len(arr) THEN [arr EXCEPT ![i + 1] = s] ELSE Append(arr, s)

\* s.length
StrLength(s) == CASE s = "1" -> 1 [] s = "2" -> 1 [] s = "true" -> 4

RECURSIVE JoinStrings(_)
\* arr.join(''), a hole giving ''
JoinStrings(arr) ==
  IF arr = <<>> THEN ""
  ELSE (IF Head(arr) = Hole THEN "" ELSE Head(arr)) \o JoinStrings(Tail(arr))

\* StringBuilder.append(str): the fields after the call and whether it threw.
\* An Array has no method set: newChunks.set(this.chunks) is a TypeError.
SbAppendOf(chunks, length, totalLength, str) ==
  IF str = Null \/ str = Undefined
  THEN [chunks |-> chunks, length |-> length, totalLength |-> totalLength, threw |-> FALSE]
  ELSE LET s == StringOf(str)
           stored == ArraySet(chunks, length, s)
       IN [chunks |-> stored, length |-> length + 1,
           totalLength |-> totalLength + StrLength(s),
           threw |-> length + 1 >= Len(stored)]

\* StringBuilder.toString()
SbToStringOf(chunks, length) ==
  IF length = 0 THEN ""
  ELSE IF length = 1 THEN chunks[1]
  ELSE JoinStrings(SubSeq(chunks, 1, length))

NoSbCall == [op |-> "none", threw |-> FALSE, ret |-> "", appended |-> <<>>, calls |-> 0]

SbInit ==
  /\ \E capacity \in SbCapacities : sbChunks = NewArray(capacity)
  /\ sbLength = 0
  /\ sbTotalLength = 0
  /\ sbLast = NoSbCall

SbAppend(str) ==
  LET r == SbAppendOf(sbChunks, sbLength, sbTotalLength, str) IN
  /\ sbLast.calls < MaxSbAppends
  /\ sbChunks' = r.chunks
  /\ sbLength' = r.length
  /\ sbTotalLength' = r.totalLength
  /\ sbLast' = [op |-> "append", threw |-> r.threw, ret |-> "",
                appended |-> IF str = Null \/ str = Undefined THEN sbLast.appended
                             ELSE Append(sbLast.appended, StringOf(str)),
                calls |-> sbLast.calls + 1]
  /\ UNCHANGED notSb

SbToString ==
  /\ sbLast' = [sbLast EXCEPT !.op = "toString", !.threw = FALSE,
                              !.ret = SbToStringOf(sbChunks, sbLength)]
  /\ UNCHANGED <<sbChunks, sbLength, sbTotalLength>>
  /\ UNCHANGED notSb

SbClear ==
  /\ sbLength' = 0
  /\ sbTotalLength' = 0
  /\ sbLast' = [sbLast EXCEPT !.op = "clear", !.threw = FALSE, !.ret = "",
                              !.appended = <<>>]
  /\ UNCHANGED <<sbChunks>>
  /\ UNCHANGED notSb

SbIdle ==
  /\ sbChunks = <<>>
  /\ sbLength = 0
  /\ sbTotalLength = 0
  /\ sbLast = NoSbCall

(***************************************************************************)
(* ObjectPool (part_003 417-446) and __ObjectPool of runtime-patch.js      *)
(* (part_001 676-705).  Objects are 1..MaxPoolObjects; the factory may     *)
(* return any of them, a new one or one it returned before.                *)
(***************************************************************************)
MaxPoolObjects == 3

DefaultPoolSize == 50

\* maxSize given to the constructor, or left to its default
PoolSizes == {1, 2, DefaultPoolSize}

PoolObjects == 1..MaxPoolObjects

\* A release that does not ask whether the object is in use.
ReleaseUnchecked(available, inUse, maxSize, obj) ==
  [available |-> IF Len(available) < maxSize THEN Append(available, obj) ELSE available,
   inUse |-> inUse \ {obj}]

\* release(obj)
Release(available, inUse, maxSize, obj) ==
  IF obj \in inUse
  THEN [available |-> IF Len(available) < maxSize THEN Append(available, obj)
                      ELSE available,
        inUse |-> inUse \ {obj}]
  ELSE [available |-> available, inUse |-> inUse]

\* acquire(); made: the object the factory returns when it is called.
\* resetFn(obj) works on the object and touches no field of the pool.
Acquire(available, inUse, made) ==
  IF Len(available) > 0
  THEN [available |-> SubSeq(available, 1, Len(available) - 1),
        inUse |-> inUse \cup {available[Len(available)]},
        ret |-> available[Len(available)]]
  ELSE [available |-> available, inUse |-> inUse \cup {made}, ret |-> made]

NoObjectPoolCall == [op |-> "none", obj |-> 0, repeated |-> FALSE, foreign |-> FALSE]

ObjectPoolInit ==
  /\ opMaxSize \in PoolSizes
  /\ opAvailable = <<>>
  /\ opInUse = {}
  /\ opLast = NoObjectPoolCall

ObjectPoolAcquire(made) ==
  LET r == Acquire(opAvailable, opInUse, made) IN
  /\ opAvailable' = r.available
  /\ opInUse' = r.inUse
  /\ opLast' = [opLast EXCEPT !.op = "acquire", !.obj = r.ret]
  /\ UNCHANGED <<opMaxSize, notObjectPool>>

ObjectPoolRelease(obj) ==
  LET r == Release(opAvailable, opInUse, opMaxSize, obj) IN
  /\ opAvailable' = r.available
  /\ opInUse' = r.inUse
  /\ opLast' = [op |-> "release", obj |-> obj,
                repeated |-> opLast.repeated \/ obj \in Range(opAvailable),
                foreign |-> opLast.foreign
                              \/ (obj \notin Range(opAvailable) /\ obj \notin opInUse)]
  /\ UNCHANGED <<opMaxSize, notObjectPool>>

ObjectPoolIdle ==
  /\ opMaxSize = 0
  /\ opAvailable = <<>>
  /\ opInUse = {}
  /\ opLast = NoObjectPoolCall

(***************************************************************************)
(* FastLookupArray (part_003 314-359).  Indexes count from 0 as in the     *)
(* code; the element at index i is at place i + 1 of the sequence.         *)
(***************************************************************************)
MaxLookupLen == 3

LookupItems == {Prim(1), Prim(2), Ref(1)}

\* The arrays given to the constructor: none, or [1, 1]
LookupArrays == {<<>>, <<Prim(1), Prim(1)>>}

\* indexOf(item)
LookupIndexOf(indexMap, item) ==
  IF MapGet(indexMap, item) # Undefined THEN MapGet(indexMap, item).v ELSE -1

\* includes(item)
LookupIncludes(indexMap, item) == MapHas(indexMap, item)

\* push(item)
LookupPushOf(array, indexMap, item) ==
  [array |-> Append(array, item),
   indexMap |-> IF MapHas(indexMap, item) THEN indexMap
                ELSE MapSet(indexMap, item, Prim(Len(array))),
   ret |-> Len(array) + 1]

\* set(index, value), index at most the length (no hole is made)
LookupSetOf(array, indexMap, index, value) ==
  LET oldValue == IF index < Len(array) THEN array[index + 1] ELSE Undefined
      m1 == IF oldValue # Undefined THEN MapDelete(indexMap, oldValue) ELSE indexMap
  IN [array |-> IF index < Len(array) THEN [array EXCEPT ![index + 1] = value]
                ELSE Append(array, value),
      indexMap |-> IF MapHas(m1, value) THEN m1 ELSE MapSet(m1, value, Prim(index))]

NoLookupCall == [op |-> "none", index |-> 0, item |-> Undefined, anySet |-> FALSE]

\* constructor(array = []): rebuildIndex()
LookupInit ==
  /\ flaArray \in LookupArrays
  /\ flaIndexMap = BuildIndex(flaArray, 0, <<>>)
  /\ flaLast = NoLookupCall

LookupPush(item) ==
  LET r == LookupPushOf(flaArray, flaIndexMap, item) IN
  /\ Len(flaArray) < MaxLookupLen
  /\ flaArray' = r.array
  /\ flaIndexMap' = r.indexMap
  /\ flaLast' = [op |-> "push", index |-> Len(flaArray), item |-> item,
                 anySet |-> flaLast.anySet]
  /\ UNCHANGED notLookup

LookupSet(index, value) ==
  LET r == LookupSetOf(flaArray, flaIndexMap, index, value) IN
  /\ index <= Len(flaArray)
  /\ index < MaxLookupLen
  /\ flaArray' = r.array
  /\ flaIndexMap' = r.indexMap
  /\ flaLast' = [op |-> "set", index |-> index, item |-> value, anySet |-> TRUE]
  /\ UNCHANGED notLookup

LookupIdle ==
  /\ flaArray = <<>>
  /\ flaIndexMap = <<>>
  /\ flaLast = NoLookupCall

HashIdle ==
  /\ hashBuild = "v2145"
  /\ hashers = <<>>
  /\ hashCache = <<>>
  /\ hashLast = NoHashCall

RegexIdle ==
  /\ reBuild = "v2145"
  /\ reObjs = <<>>
  /\ reCache = <<>>
  /\ reLast = NoRegexCall

JsonIdle ==
  /\ jsonBuild = "v2145"
  /\ jsonHeap = <<>>
  /\ jsonCache = <<>>
  /\ jsonLast = NoJsonCall

TimerIdle ==
  /\ throttleTimers = TRUE
  /\ bunDefined = FALSE
  /\ intervals = <<>>
  /\ timerLast = NoTimerCall

LRUIdle ==
  /\ lruMax = 1
  /\ lruCache = <<>>
  /\ lruTouch = <<>>
  /\ lruLast = NoLRUCall

InitLRU == LRUInit /\ TimerIdle /\ JsonIdle /\ RegexIdle /\ HashIdle /\ PoolIdle /\ BatcherIdle /\ InstallerIdle /\ StringifyIdle /\ LoaderIdle /\ PushIdle /\ IndexIdle /\ SbIdle /\ ObjectPoolIdle /\ LookupIdle

NextLRU ==
  \/ \E k \in LRUKeys : LRUGet(k)
  \/ \E k \in LRUKeys, v \in LRUValues : LRUSet(k, v)
  \/ LRUClear

SpecLRU == InitLRU /\ [][NextLRU]_vars

InitTimer == TimerInit /\ LRUIdle /\ JsonIdle /\ RegexIdle /\ HashIdle /\ PoolIdle /\ BatcherIdle /\ InstallerIdle /\ StringifyIdle /\ LoaderIdle /\ PushIdle /\ IndexIdle /\ SbIdle /\ ObjectPoolIdle /\ LookupIdle

NextTimer ==
  \E fn \in Callbacks(bunDefined), delay \in Delays, args \in ExtraArgs :
    SetInterval(fn, delay, args)

SpecTimer == InitTimer /\ [][NextTimer]_vars

InitJSON == JsonInit /\ LRUIdle /\ TimerIdle /\ RegexIdle /\ HashIdle /\ PoolIdle /\ BatcherIdle /\ InstallerIdle /\ StringifyIdle /\ LoaderIdle /\ PushIdle /\ IndexIdle /\ SbIdle /\ ObjectPoolIdle /\ LookupIdle

NextJSON ==
  \/ \E text \in Texts, reviver \in BOOLEAN : JsonParse(text, reviver)
  \/ \E i \in 1..Len(jsonHeap) : JsonMutate(i)

SpecJSON == InitJSON /\ [][NextJSON]_vars

InitRegex == RegexInit /\ LRUIdle /\ TimerIdle /\ JsonIdle /\ HashIdle /\ PoolIdle /\ BatcherIdle /\ InstallerIdle /\ StringifyIdle /\ LoaderIdle /\ PushIdle /\ IndexIdle /\ SbIdle /\ ObjectPoolIdle /\ LookupIdle

NextRegex ==
  \/ \E p \in Patterns, flags \in Flags : RegExpNew(StrPattern(p), flags)
  \/ \E i \in 1..Len(reObjs) : RegExpNew(RePattern(reObjs[i]), reObjs[i].flags)
  \/ \E i \in 1..Len(reObjs), pos \in 0..MaxIndex : RegExpExec(i, pos)

SpecRegex == InitRegex /\ [][NextRegex]_vars

InitHash == HashInit /\ LRUIdle /\ TimerIdle /\ JsonIdle /\ RegexIdle /\ PoolIdle /\ BatcherIdle /\ InstallerIdle /\ StringifyIdle /\ LoaderIdle /\ PushIdle /\ IndexIdle /\ SbIdle /\ ObjectPoolIdle /\ LookupIdle

NextHash ==
  \/ \E alg \in Algorithms : CreateHash(alg)
  \/ \E i \in 1..Len(hashers), data \in DataInputs : HashUpdate(i, data)
  \/ \E i \in 1..Len(hashers), enc \in OutEncodings : HashDigest(i, enc)

SpecHash == InitHash /\ [][NextHash]_vars

InitPool == PoolInit /\ LRUIdle /\ TimerIdle /\ JsonIdle /\ RegexIdle /\ HashIdle /\ BatcherIdle /\ InstallerIdle /\ StringifyIdle /\ LoaderIdle /\ PushIdle /\ IndexIdle /\ SbIdle /\ ObjectPoolIdle /\ LookupIdle

NextPool ==
  \/ \E size \in Sizes, dirty \in BOOLEAN : PoolAcquire(size, dirty)
  \/ \E b \in 1..Len(poolBufs) : PoolRelease(b)
  \/ PoolReleaseNonBuffer
  \/ \E b \in 1..Len(poolBufs) : PoolWrite(b)

SpecPool == InitPool /\ [][NextPool]_vars

InitBatcher == BatcherInit /\ LRUIdle /\ TimerIdle /\ JsonIdle /\ RegexIdle /\ HashIdle /\ PoolIdle /\ InstallerIdle /\ StringifyIdle /\ LoaderIdle /\ PushIdle /\ IndexIdle /\ SbIdle /\ ObjectPoolIdle /\ LookupIdle

NextBatcher ==
  \/ \E key \in BatchKeys, operation \in Operations, threw \in {0} \cup Errors :
       Batch(key, operation, threw)
  \/ \E t \in batHost, threw \in {0} \cup Errors : TimerFire(t, threw)
  \/ \E c \in 1..Len(batLog) : \E results \in ResultLists(batLog[c].items) :
       OperationResolves(c, results)
  \/ \E c \in 1..Len(batLog), error \in Errors : OperationRejects(c, error)

SpecBatcher == InitBatcher /\ [][NextBatcher]_vars

\* The timers setTimeout may hand to the host.
AllTimers == [id : 1..MaxItems, key : BatchKeys, op : Operations]

\* The host's timer queue is fair: a timer that stays scheduled fires.
TimerQueueFair ==
  \A t \in AllTimers : WF_vars(\E threw \in {0} \cup Errors : TimerFire(t, threw))

\* Every operation that was invoked settles the promise it returned.
OperationsSettle ==
  \A c \in 1..MaxItems :
    WF_vars(/\ c <= Len(batLog)
            /\ \/ \E results \in ResultLists(batLog[c].items) : OperationResolves(c, results)
               \/ \E error \in Errors : OperationRejects(c, error))

SpecBatcherFair == SpecBatcher /\ TimerQueueFair /\ OperationsSettle

InitInstaller == InstallerInit /\ LRUIdle /\ TimerIdle /\ JsonIdle /\ RegexIdle /\ HashIdle /\ PoolIdle /\ BatcherIdle /\ StringifyIdle /\ LoaderIdle /\ PushIdle /\ IndexIdle /\ SbIdle /\ ObjectPoolIdle /\ LookupIdle

NextInstaller ==
  \/ ApplyPatches
  \/ \E symbol \in Symbols, served \in BOOLEAN : Call(symbol, served)

SpecInstaller == InitInstaller /\ [][NextInstaller]_vars

InitStringify == StringifyInit /\ LRUIdle /\ TimerIdle /\ RegexIdle /\ HashIdle /\ PoolIdle /\ BatcherIdle /\ InstallerIdle /\ LoaderIdle /\ PushIdle /\ IndexIdle /\ SbIdle /\ ObjectPoolIdle /\ LookupIdle

NextStringify ==
  \/ \E kind \in {"obj", "arr"} : JsonNewObject(kind, Prim(1))
  \/ \E i \in 1..Len(jsonHeap) : JsonMutate(i)
  \/ \E value \in StringifyInputs(jsonHeap), format \in Formats :
       JsonStringify(value, format[1], format[2])
  \/ \E x \in StringifyInputs(jsonHeap) : JsonRoundTrip(x)

SpecStringify == InitStringify /\ [][NextStringify]_vars

InitLoader == LoaderInit /\ LRUIdle /\ TimerIdle /\ JsonIdle /\ RegexIdle /\ HashIdle /\ PoolIdle /\ BatcherIdle /\ InstallerIdle /\ StringifyIdle /\ PushIdle /\ IndexIdle /\ SbIdle /\ ObjectPoolIdle /\ LookupIdle

NextLoader ==
  \/ LoadTimers
  \/ LoadHeapCap
  \/ LoadTelemetryGate
  \/ LoadEnvCache
  \/ LoadHashCache
  \/ LoadJsonCache
  \/ LoadRegexCache
  \/ Expose

SpecLoader == InitLoader /\ [][NextLoader]_vars

InitPush == PushInit /\ LRUIdle /\ TimerIdle /\ JsonIdle /\ RegexIdle /\ HashIdle /\ PoolIdle /\ BatcherIdle /\ InstallerIdle /\ StringifyIdle /\ LoaderIdle /\ IndexIdle /\ SbIdle /\ ObjectPoolIdle /\ LookupIdle

NextPush == \E args \in PushArgLists : ArrayPush(args)

SpecPush == InitPush /\ [][NextPush]_vars

InitIndex == IndexInit /\ LRUIdle /\ TimerIdle /\ JsonIdle /\ RegexIdle /\ HashIdle /\ PoolIdle /\ BatcherIdle /\ InstallerIdle /\ StringifyIdle /\ LoaderIdle /\ PushIdle /\ SbIdle /\ ObjectPoolIdle /\ LookupIdle

NextIndex ==
  \/ \E x \in IxElements, f \in FromIndexes : ArrayIndexOf(x, f)
  \/ \E x \in IxElements : ArrayAppend(x)
  \/ \E i \in 0..(MaxIxLen - 1), x \in IxElements : ArrayAssign(i, x)

SpecIndex == InitIndex /\ [][NextIndex]_vars

InitSb == SbInit /\ LRUIdle /\ TimerIdle /\ JsonIdle /\ RegexIdle /\ HashIdle /\ PoolIdle /\ BatcherIdle /\ InstallerIdle /\ StringifyIdle /\ LoaderIdle /\ PushIdle /\ IndexIdle /\ ObjectPoolIdle /\ LookupIdle

NextSb ==
  \/ \E str \in SbInputs : SbAppend(str)
  \/ SbToString
  \/ SbClear

SpecSb == InitSb /\ [][NextSb]_vars

InitObjectPool == ObjectPoolInit /\ LRUIdle /\ TimerIdle /\ JsonIdle /\ RegexIdle /\ HashIdle /\ PoolIdle /\ BatcherIdle /\ InstallerIdle /\ StringifyIdle /\ LoaderIdle /\ PushIdle /\ IndexIdle /\ SbIdle /\ LookupIdle

NextObjectPool ==
  \/ \E made \in PoolObjects : ObjectPoolAcquire(made)
  \/ \E obj \in PoolObjects : ObjectPoolRelease(obj)

SpecObjectPool == InitObjectPool /\ [][NextObjectPool]_vars

InitLookup == LookupInit /\ LRUIdle /\ TimerIdle /\ JsonIdle /\ RegexIdle /\ HashIdle /\ PoolIdle /\ BatcherIdle /\ InstallerIdle /\ StringifyIdle /\ LoaderIdle /\ PushIdle /\ IndexIdle /\ SbIdle /\ ObjectPoolIdle

NextLookup ==
  \/ \E item \in LookupItems : LookupPush(item)
  \/ \E index \in 0..(MaxLookupLen - 1), value \in LookupItems : LookupSet(index, value)

SpecLookup == InitLookup /\ [][NextLookup]_vars

(***************************************************************************)
(* C1: for the patched JSON.parse called without a reviver, mutating the   *)
(* value returned by one call never changes what a later call on the same  *)
(* text returns: every call returns a value equal to what the original     *)
(* JSON.parse returns for that text.  (Runs with a reviver call in them    *)
(* are left out: the claim is about calls without one.)                    *)
(***************************************************************************)
C1_ParseUnaffectedByMutation ==
  (jsonLast.op = "parse" /\ ~jsonLast.revived)
  => jsonLast.retVal = OrigValue(jsonLast.text)

(***************************************************************************)
(* C2: every construction of a global or sticky pattern through the        *)
(* patched RegExp that hits the cache returns a matcher whose lastIndex    *)
(* is 0.                                                                   *)
(***************************************************************************)
RegexStatefulHit ==
  /\ reLast.op = "new"
  /\ reLast.hit
  /\ IsGlobal(reLast.flags) \/ IsSticky(reLast.flags)

C2_HitStartsAtZero == RegexStatefulHit => reLast.lastIndex = 0

(***************************************************************************)
(* C3: the value returned by digest equals the value the original digest   *)
(* would return for the hash object's algorithm, its full accumulated      *)
(* input and the requested output encoding.  (The original returns a value *)
(* for the first digest call on a hash object; every update before it has  *)
(* succeeded.)                                                             *)
(***************************************************************************)
HashFirstDigest == hashLast.op = "digest" /\ hashLast.first

C3_DigestEqualsOriginal ==
  HashFirstDigest =>
    hashLast.ret = OrigDigest(hashers[hashLast.h].alg, hashers[hashLast.h].allInput,
                              hashLast.enc)

(***************************************************************************)
(* C4: each set of a key that is not present in a full cache removes       *)
(* exactly one entry, the one whose last touch (a set of it, or a get of   *)
(* it while present) is the oldest among the entries present, whatever     *)
(* values are stored.                                                      *)
(***************************************************************************)
LRUSetEvicted ==
  /\ lruLast.op = "set"
  /\ ~MapHas(lruLast.pre, lruLast.key)
  /\ Len(lruLast.pre) >= lruMax

C4_EvictsLeastRecentlyTouched ==
  LRUSetEvicted =>
    MapKeys(lruLast.pre) \ MapKeys(lruCache) = {Head(lruLast.preTouch)}

(***************************************************************************)
(* C5: the number of stored entries never exceeds the capacity, and a set  *)
(* of a key that is already present changes neither the number of entries  *)
(* nor any other key's entry.                                              *)
(***************************************************************************)
LRUSetPresent == lruLast.op = "set" /\ MapHas(lruLast.pre, lruLast.key)

C5_SizeBounded ==
  /\ Len(lruCache) <= lruMax
  /\ LRUSetPresent =>
       /\ Len(lruCache) = Len(lruLast.pre)
       /\ \A k \in MapKeys(lruLast.pre) \ {lruLast.key} :
            MapHas(lruCache, k) /\ MapGet(lruCache, k) = MapGet(lruLast.pre, k)

\* A full cache in which a present key has just been set again.
C5_Witness == LRUSetPresent /\ Len(lruLast.pre) = lruMax /\ lruMax >= 2

(***************************************************************************)
(* C6: with governance enabled, every registration whose callback is not   *)
(* the known expensive callback and whose requested delay is at or below   *)
(* 50 ms reaches the original setInterval with delay 100 ms and the same   *)
(* callback and extra arguments.                                           *)
(***************************************************************************)
TimerCalled == timerLast.fn # "none"

C6_FloorAtOrBelowThreshold ==
  (/\ TimerCalled
   /\ throttleTimers
   /\ timerLast.fn # BunGc
   /\ timerLast.delay.t = "number"
   /\ timerLast.delay.n <= ThrottleMax)
  => timerLast.calls =
       <<OrigCall(timerLast.fn, Num(ThrottleFloor), timerLast.args, "throttle")>>

(***************************************************************************)
(* C7: every registration whose callback is reference-identical to Bun.gc  *)
(* reaches the original setInterval with a different, non-blocking         *)
(* callback and delay 120000 ms, whatever the requested delay (the rule    *)
(* comes before the floor rule) and whatever the opt-out flag.             *)
(***************************************************************************)
C7_GcSubstituted ==
  (TimerCalled /\ timerLast.fn = BunGc)
  => /\ Len(timerLast.calls) = 1
     /\ timerLast.calls[1].fn = GcNonBlocking
     /\ timerLast.calls[1].fn # timerLast.fn
     /\ timerLast.calls[1].delay = Num(GcInterval)

\* Bun.gc registered with a delay the floor rule would catch, flag set or not.
C7_Witness ==
  /\ TimerCalled
  /\ timerLast.fn = BunGc
  /\ timerLast.delay = Num(16)
  /\ throttleTimers

(***************************************************************************)
(* C8: a registration that matches neither rule (callback not the          *)
(* expensive one, and the delay above 50 ms or governance disabled) causes *)
(* exactly one call of the original setInterval with callback, delay and   *)
(* extra arguments unchanged, and the caller receives the handle the       *)
(* original returned.                                                      *)
(***************************************************************************)
TimerNoRule ==
  /\ TimerCalled
  /\ timerLast.fn # BunGc
  /\ \/ ~throttleTimers
     \/ timerLast.delay.t = "number" /\ timerLast.delay.n > ThrottleMax

C8_PassThrough ==
  TimerNoRule =>
    /\ Len(timerLast.calls) = 1
    /\ timerLast.calls[1].fn = timerLast.fn
    /\ timerLast.calls[1].delay = timerLast.delay
    /\ timerLast.calls[1].args = timerLast.args
    /\ timerLast.handle = Len(intervals)
    /\ intervals[timerLast.handle] = timerLast.calls[1]

\* 16 ms with the opt-out flag set.
C8_Witness ==
  /\ TimerNoRule
  /\ ~throttleTimers
  /\ timerLast.delay = Num(16)
  /\ timerLast.args # <<>>

(***************************************************************************)
(* C9: after any sequence of acquireBuffer and releaseBuffer calls, every  *)
(* buffer held in a tier's free list has length at least that tier's size  *)
(* class (256, 4096 or 65536 bytes).                                       *)
(***************************************************************************)
C9_FreeBuffersFillTier ==
  \A tier \in Tiers : \A i \in 1..Len(poolFree[tier]) :
    poolBufs[poolFree[tier][i]].len >= TierSize(tier)

(***************************************************************************)
(* C10: in any sequence of acquire and release calls in which no caller    *)
(* writes to a buffer after releasing it, every buffer that acquireBuffer  *)
(* hands back from a free list contains only zero bytes over its whole     *)
(* length.                                                                 *)
(***************************************************************************)
PoolHandedBack == poolLast.op = "acquire" /\ poolLast.pooled

C10_PooledBufferZero ==
  (PoolHandedBack /\ ~poolLast.wroteReleased) => poolLast.zero

(***************************************************************************)
(* C10, amended: in any sequence of acquire and release calls in which no  *)
(* buffer is released more than once and no caller writes to a buffer      *)
(* after releasing it, every buffer that acquireBuffer hands back from a   *)
(* free list contains only zero bytes over its whole length.               *)
(***************************************************************************)
C10_PooledBufferZeroReleasedOnce ==
  (PoolHandedBack /\ ~poolLast.wroteReleased /\ ~poolLast.releasedTwice)
  => poolLast.zero

\* A buffer that was written to, released, and handed back by a later acquire.
C10_Witness ==
  /\ PoolHandedBack
  /\ ~poolLast.wroteReleased
  /\ ~poolLast.releasedTwice
  /\ \E b \in 1..Len(poolBufs) :
       /\ poolBufs[b].rel
       /\ poolBufs[b].mem = poolBufs[poolLast.buf].mem
       /\ poolBufs[b].len >= poolLast.size
  /\ poolLast.size = SmallSize

(***************************************************************************)
(* C11: in every reachable state of the AsyncBatcher, under any            *)
(* interleaving of enqueues, timer expiries and completions of batch       *)
(* operations, each key has at most one pending flush timer (scheduled     *)
(* and neither fired nor cleared).                                         *)
(***************************************************************************)
PendingTimers(key) == {t \in batHost : t.key = key}

C11_OneTimerPerKey == \A key \in BatchKeys : Cardinality(PendingTimers(key)) <= 1

\* A key with a timer pending whose window took a second item after the
\* timer was scheduled.
C11_Witness ==
  \E key \in BatchKeys :
    /\ Cardinality(PendingTimers(key)) = 1
    /\ Len(batches[key]) >= 2

(***************************************************************************)
(* C12: enqueuing n items on one key in a single turn with maximum batch   *)
(* size M produces floor(n/M) size-triggered flushes of exactly M items    *)
(* each, in enqueue order, followed when n mod M > 0 by exactly one        *)
(* timer-triggered flush carrying the remaining items; no flush carries    *)
(* more than M items and no flush carries zero items.                      *)
(***************************************************************************)
RECURSIVE FlushedOfKey(_, _)
\* The items of a key the first c invocations were given, in order.
FlushedOfKey(key, c) ==
  IF c = 0 THEN <<>>
  ELSE FlushedOfKey(key, c - 1) \o (IF batLog[c].key = key THEN batLog[c].items ELSE <<>>)

RECURSIVE EnqueuedOfKey(_, _)
\* The first n items that were enqueued on a key, in enqueue order.
EnqueuedOfKey(key, n) ==
  IF n = 0 THEN <<>>
  ELSE EnqueuedOfKey(key, n - 1) \o (IF batItems[n].key = key THEN <<n>> ELSE <<>>)

C12_FlushSizes ==
  /\ \A key \in BatchKeys :
       /\ batTurn.base[key] = 0 =>
            /\ batTurn.sized[key] = batTurn.enq[key] \div batMax
            /\ Len(batches[key]) = batTurn.enq[key] % batMax
       /\ Cardinality(PendingTimers(key)) = (IF Len(batches[key]) > 0 THEN 1 ELSE 0)
       /\ FlushedOfKey(key, Len(batLog)) \o batches[key]
            = EnqueuedOfKey(key, Len(batItems))
  /\ \A c \in 1..Len(batLog) :
       /\ Len(batLog[c].items) >= 1
       /\ Len(batLog[c].items) <= batMax
       /\ batLog[c].trigger = "size" => Len(batLog[c].items) = batMax
       /\ batLog[c].trigger = "timer" => Len(batLog[c].items) < batMax

\* Three items on one key with M = 2: a flush of two by size, then the item
\* left flushed by its timer.
C12_Witness ==
  \E c \in 1..Len(batLog) :
    /\ batMax = 2
    /\ c >= 2
    /\ batLog[c].trigger = "timer"
    /\ batLog[c - 1].trigger = "size"
    /\ batLog[c - 1].key = batLog[c].key
    /\ Len(batLog[c].items) = 1

(***************************************************************************)
(* C13: each flush invokes the batch operation exactly once, with the      *)
(* inputs of that window in enqueue order, and when the operation succeeds *)
(* the caller that enqueued the i-th input of the window is resolved with  *)
(* the i-th element of the operation's result list.                        *)
(***************************************************************************)
Invocations(item) == {c \in 1..Len(batLog) : \E j \in 1..Len(batLog[c].items) :
                                               batLog[c].items[j] = item}

InWindow(item) == \E key \in BatchKeys : \E j \in 1..Len(batches[key]) :
                    batches[key][j] = item

C13_PositionalResults ==
  /\ \A item \in 1..Len(batItems) :
       Cardinality(Invocations(item)) = (IF InWindow(item) THEN 0 ELSE 1)
  /\ \A c \in 1..Len(batLog) :
       /\ \A i, j \in 1..Len(batLog[c].items) :
            i < j => batLog[c].items[i] < batLog[c].items[j]
       /\ batLog[c].outcome = "resolved" =>
            \A i \in 1..Len(batLog[c].items) :
              i <= Len(batLog[c].results) =>
                /\ batItems[batLog[c].items[i]].state = "resolved"
                /\ batItems[batLog[c].items[i]].v = batLog[c].results[i]

\* An operation resolved with one result for each of the two inputs of a window.
C13_Witness ==
  \E c \in 1..Len(batLog) :
    /\ batLog[c].outcome = "resolved"
    /\ Len(batLog[c].items) = 2
    /\ Len(batLog[c].results) = 2

(***************************************************************************)
(* C14: if the batch operation of a flush throws or rejects, every caller  *)
(* whose item was part of that flush is rejected with that same error and  *)
(* none of them is resolved, while callers whose items belong to another   *)
(* window (of the same or another key) are not affected by the failure.    *)
(***************************************************************************)
C14_FailureReachesItsWindowOnly ==
  /\ \A c \in 1..Len(batLog) : \A i \in 1..Len(batLog[c].items) :
       LET item == batItems[batLog[c].items[i]] IN
       /\ batLog[c].outcome = "rejected" =>
            item.state = "rejected" /\ item.v = batLog[c].error
       /\ batLog[c].outcome = "pending" => item.state = "pending"
       /\ batLog[c].outcome = "resolved" => item.state = "resolved"
  /\ \A item \in 1..Len(batItems) : InWindow(item) => batItems[item].state = "pending"

\* A failed flush of two items, next to a window that is open and an
\* invocation of the same key that succeeded.
C14_Witness ==
  \E c, d \in 1..Len(batLog) :
    /\ batLog[c].outcome = "rejected"
    /\ Len(batLog[c].items) = 2
    /\ batLog[d].outcome = "resolved"
    /\ batLog[d].key = batLog[c].key

(***************************************************************************)
(* C15: calling the installer (applyPatches) a second time, after the      *)
(* module has already applied itself on load, leaves exactly one wrapper   *)
(* layer around each intercepted symbol: a logical call passes through one *)
(* wrapper and reaches the original exactly once.                          *)
(***************************************************************************)
C15_OneWrapperLayer ==
  /\ \A s \in Intercepted(instBuild) : Len(instBindings[s]) = 1
  /\ (instLast.op = "call" /\ instLast.symbol \in Intercepted(instBuild)) =>
       /\ instLast.passed = 1
       /\ ~instLast.served => instLast.reached = 1

(***************************************************************************)
(* C20: any two calls of the patched JSON.parse on the same text (no       *)
(* reviver) whose result is an object or array return two distinct         *)
(* references: no reference is ever returned twice, and a cache hit never  *)
(* returns the reference stored in the cache.                              *)
(***************************************************************************)
JsonParsedObject ==
  jsonLast.op = "parse" /\ ~jsonLast.reviver /\ jsonLast.ret.t = "ref"

C20_DistinctReferences ==
  JsonParsedObject =>
    /\ ~jsonLast.again
    /\ jsonLast.hit =>
         MapGet(jsonCache, ParseKey(jsonBuild, jsonLast.text, FALSE)) # jsonLast.ret

(***************************************************************************)
(* C16: whenever a replacer or a space argument is supplied, the patched   *)
(* JSON.stringify returns exactly what the original stringify returns for  *)
(* those arguments at the time of the call, and it neither reads nor       *)
(* writes any cache.                                                       *)
(***************************************************************************)
C16_FormattedBypassesCache ==
  (strLast.op = "stringify" /\ strLast.formatted) =>
    /\ strLast.ret = strLast.expect
    /\ ~strLast.read
    /\ ~strLast.wrote

(***************************************************************************)
(* C17: for every sequence of calls in which objects may be mutated in     *)
(* place between calls, the patched JSON.stringify called with an object   *)
(* and no formatting options returns the same text as the original         *)
(* stringify returns for the object's content at the time of the call.     *)
(***************************************************************************)
C17_ObjectTextIsCurrent ==
  (strLast.op = "stringify" /\ strLast.object /\ ~strLast.formatted) =>
    strLast.ret = strLast.expect

(***************************************************************************)
(* C18: for every primitive input (string, number, boolean, null) given    *)
(* without formatting options, the patched JSON.stringify returns what the *)
(* original stringify returns for that input, whatever primitives were     *)
(* serialized before it.                                                   *)
(***************************************************************************)
C18_PrimitiveTextIsOriginal ==
  (strLast.op = "stringify" /\ ~strLast.object /\ ~strLast.formatted) =>
    strLast.ret = strLast.expect

(***************************************************************************)
(* C19: for every JSON-representable value x and at any point of any call  *)
(* sequence, patched parse applied to patched stringify of x yields a      *)
(* value deeply equal to x as it is at the time of the call.               *)
(***************************************************************************)
C19_RoundTrip == strLast.op = "roundtrip" => strLast.back = strLast.content

(***************************************************************************)
(* C21: whenever the original update or digest would throw for a call      *)
(* (the hash object is already finalized), the wrapped call throws the     *)
(* same error, and no entry is added to the hash cache for that call.      *)
(***************************************************************************)
C21_OriginalThrowPropagates ==
  (hashLast.op \in {"update", "digest"} /\ hashLast.finalized) =>
    (hashLast.ret = Throws /\ ~hashLast.added)

(***************************************************************************)
(* C22: a digest call whose accumulated input is at or above the size      *)
(* threshold invokes the original digest, returns its result (the value,   *)
(* or the error on a finalized hash object), and leaves the hash cache     *)
(* unchanged in contents and in recency order.                             *)
(***************************************************************************)
C22_LargeInputBypassesCache ==
  (hashLast.op = "digest" /\ hashLast.large) =>
    /\ ~hashLast.hit
    /\ hashLast.ret = IF hashLast.finalized THEN Throws
                      ELSE OrigDigest(hashers[hashLast.h].alg,
                                      hashers[hashLast.h].input, hashLast.enc)
    /\ hashLast.same

\* A digest of a large input on a fresh hash object while the cache holds entries.
C22_Witness ==
  /\ hashLast.op = "digest"
  /\ hashLast.large
  /\ ~hashLast.finalized
  /\ hashLast.ret.t = "digest"
  /\ hashCache # <<>>

(***************************************************************************)
(* C23: acquireBuffer(size) returns a Buffer of at least size bytes; when  *)
(* the free list of the smallest tier whose size class is >= size is not   *)
(* empty, the Buffer returned is one taken from that free list (a view of  *)
(* it), and a fresh Buffer is allocated only when size exceeds the largest *)
(* tier or that free list is empty.                                        *)
(***************************************************************************)
C23_AcquirePrefersFreeList ==
  poolLast.op = "acquire" =>
    /\ poolBufs[poolLast.buf].len >= poolLast.size
    /\ poolLast.hadFree <=> poolLast.pooled

(***************************************************************************)
(* C24: each tier's free list holds at most its maximum; a release into a  *)
(* tier whose free list is already at its maximum, a release of a          *)
(* non-Buffer and a release of a Buffer longer than the largest tier leave *)
(* every free list unchanged.                                              *)
(***************************************************************************)
C24_FreeListsBounded ==
  /\ \A t \in Tiers : Len(poolFree[t]) <= TierMax(t)
  /\ (poolLast.op = "release" /\ poolLast.case \in {"full", "toolong"}) => poolLast.kept
  /\ poolLast.op = "releaseNonBuffer" => poolLast.kept

\* A release into a tier whose free list is at its maximum.
C24_Witness ==
  /\ poolLast.op = "release"
  /\ poolLast.case = "full"
  /\ \E t \in Tiers : Len(poolFree[t]) = TierMax(t)

(***************************************************************************)
(* C25: provided every caller releases each acquired Buffer at most once   *)
(* and does not use it after release, no two Buffers that callers hold     *)
(* un-released share the same underlying memory, and no Buffer (and no     *)
(* memory block) appears twice in the free lists.                          *)
(***************************************************************************)
FreeEntries == {<<t, i>> : t \in Tiers, i \in 1..MaxBufs + 1} \cap
               UNION {{<<t, i>> : i \in 1..Len(poolFree[t])} : t \in Tiers}

C25_ExclusiveOwnership ==
  (~poolLast.releasedTwice /\ ~poolLast.wroteReleased) =>
    /\ \A i, j \in 1..Len(poolBufs) :
         (i # j /\ ~poolBufs[i].rel /\ ~poolBufs[j].rel) =>
           poolBufs[i].mem # poolBufs[j].mem
    /\ \A e, f \in FreeEntries :
         e # f => poolBufs[poolFree[e[1]][e[2]]].mem # poolBufs[poolFree[f[1]][f[2]]].mem

\* A Buffer handed back from a free list is held together with another Buffer,
\* and no Buffer was released twice.
C25_Witness ==
  /\ poolLast.op = "acquire"
  /\ poolLast.pooled
  /\ ~poolLast.releasedTwice
  /\ ~poolLast.wroteReleased
  /\ \E i, j \in 1..Len(poolBufs) : i # j /\ ~poolBufs[i].rel /\ ~poolBufs[j].rel

(***************************************************************************)
(* C26: an item enqueued after a window of its key has been flushed, also  *)
(* while that window's operation is still pending, is never added to the   *)
(* flushed window but starts or joins a new one; every enqueued item is    *)
(* passed to the batch operation in exactly one flush (an item still in a  *)
(* window has been passed to none and has the timer of its key pending).   *)
(***************************************************************************)
ItemPlacedOnce ==
  \A item \in 1..Len(batItems) :
    /\ Cardinality(Invocations(item)) + (IF InWindow(item) THEN 1 ELSE 0) = 1
    /\ InWindow(item) => \E t \in batHost : t.key = batItems[item].key

FlushedWindowsStay ==
  /\ Len(batLog') >= Len(batLog)
  /\ \A c \in 1..Len(batLog) :
       batLog'[c].items = batLog[c].items /\ batLog'[c].key = batLog[c].key
  /\ \A item \in (Len(batItems) + 1)..Len(batItems') :
       \/ \E j \in 1..Len(batches'[batItems'[item].key]) :
            batches'[batItems'[item].key][j] = item
       \/ /\ Len(batLog') = Len(batLog) + 1
          /\ \E j \in 1..Len(batLog'[Len(batLog')].items) :
               batLog'[Len(batLog')].items[j] = item

C26_NewItemsJoinNewWindow == []ItemPlacedOnce /\ [][FlushedWindowsStay]_vars

\* An item waits in a new window of a key while the operation of a flushed
\* window of that key is still pending.
C26_Witness ==
  \E c \in 1..Len(batLog) :
    /\ batLog[c].outcome = "pending"
    /\ batches[batLog[c].key] # <<>>

(***************************************************************************)
(* C27: a flush by the size threshold cancels the pending timer of its     *)
(* window, so no timer of an already flushed window ever fires a flush:    *)
(* every timer pending at the host was scheduled by the first item of the  *)
(* window now open for its key, and a timer-triggered flush comes after    *)
(* the delay that began when that item was enqueued.                       *)
(***************************************************************************)
C27_TimerBelongsToOpenWindow ==
  \A t \in batHost :
    /\ batches[t.key] # <<>>
    /\ batches[t.key][1] = t.id
    /\ batTimers[t.key] = t.id

\* A window that had a timer was flushed by size, and the next window of the
\* key has its own timer pending.
C27_Witness ==
  \E c \in 1..Len(batLog) :
    /\ batLog[c].trigger = "size"
    /\ Len(batLog[c].items) >= 2
    /\ \E t \in batHost : t.key = batLog[c].key

(***************************************************************************)
(* C28: get(key) returns the value given by the most recent set(key, v)    *)
(* when the key has not been evicted or cleared since, and undefined       *)
(* otherwise.  (get and set have no path that throws: they only call       *)
(* has, get, set, delete and keys of a Map.)                               *)
(***************************************************************************)
C28_GetReturnsLatestSet ==
  lruLast.op = "get" =>
    lruLast.ret = (IF lruLast.latest[lruLast.key] = Absent THEN Undefined
                   ELSE lruLast.latest[lruLast.key])

\* A get returns the value of the latest set of its key, in a full cache from
\* which another key has been evicted or which never held it.
C28_Witness ==
  /\ lruLast.op = "get"
  /\ lruLast.ret = Prim(2)
  /\ Len(lruCache) = lruMax
  /\ \E k \in LRUKeys : lruLast.latest[k] = Absent /\ ~MapHas(lruCache, k)

(***************************************************************************)
(* C29: for every combination of the opt-out flag, remote mode, the        *)
(* telemetry flags and the availability of the crypto module, the patch    *)
(* count published in the introspection object and in the startup log line *)
(* equals the number of interceptions that are active in the process.      *)
(***************************************************************************)
C29_PatchCountIsActiveCount ==
  ldPublished.set =>
    /\ ldPublished.patchCount = Cardinality(ldActive)
    /\ ldPublished.logged = Cardinality(ldActive)

(***************************************************************************)
(* C30: in remote mode, after the heap block NODE_OPTIONS contains exactly *)
(* one heap-ceiling directive, carrying the configured override in         *)
(* megabytes (2048 when none is given), and every other option of the      *)
(* prior NODE_OPTIONS is kept in order; outside remote mode NODE_OPTIONS   *)
(* is left unchanged.  Node reads --max_old_space_size as                  *)
(* --max-old-space-size.                                                   *)
(***************************************************************************)
OptionsOf(text) == SelectSeq(text, LAMBDA piece : piece # Sp)

IsHeapCeiling(piece) ==
  piece.name \in {"--max-old-space-size", "--max_old_space_size"}

CeilingsOf(text) == SelectSeq(OptionsOf(text), IsHeapCeiling)

OthersOf(text) == SelectSeq(OptionsOf(text), LAMBDA piece : ~IsHeapCeiling(piece))

C30_OneHeapCeiling ==
  Blocks[ldPc] \notin {"timers", "heap"} =>
    IF ldEnv.remote
    THEN /\ CeilingsOf(ldNodeOptions) =
              <<HeapDash(IF ldEnv.maxHeapMb = 0 THEN DefaultMaxHeap
                         ELSE ldEnv.maxHeapMb)>>
         /\ OthersOf(ldNodeOptions) = OthersOf(ldEnv.nodeOptions)
    ELSE ldNodeOptions = ldEnv.nodeOptions

(***************************************************************************)
(* C31: the compiled-regex cache never holds more than its maximum number  *)
(* of patterns, and when a new pattern is inserted into a full cache the   *)
(* pattern evicted is the least recently used one, where a cache hit       *)
(* counts as a use.                                                        *)
(***************************************************************************)
C31_RegexCacheEvictsLRU ==
  /\ Len(reCache) <= RegexCacheMax
  /\ reLast.op = "new" => reLast.evicted = reLast.lru

(***************************************************************************)
(* C32: the patched Array.prototype.push behaves as the native push for    *)
(* every receiver and argument list, also for a single argument that is    *)
(* itself an array of more than 10 elements: it appends each argument as   *)
(* one element, in order, and returns the array's new length.              *)
(***************************************************************************)
C32_PushIsNativePush ==
  pushLast.op = "push" =>
    /\ pushArr = pushLast.pre \o pushLast.args
    /\ pushLast.ret = Number(Len(pushLast.pre) + Len(pushLast.args))

(***************************************************************************)
(* C33: the patched Array.prototype.indexOf returns the same index as the  *)
(* native indexOf for every array, search element and fromIndex, after any *)
(* sequence of mutations of the array between calls.                       *)
(***************************************************************************)
C33_IndexOfIsNativeIndexOf ==
  ixLast.op = "indexOf" => ixLast.ret = ixLast.native

(***************************************************************************)
(* C34: for any number of append calls on a StringBuilder since its        *)
(* construction or last clear, more appends than its initial capacity      *)
(* included, toString returns the concatenation, in order, of the string   *)
(* forms of all appended values that were not null or undefined, and       *)
(* append never throws.                                                    *)
(***************************************************************************)
C34_ToStringIsConcatenation ==
  /\ sbLast.op = "toString" => sbLast.ret = JoinStrings(sbLast.appended)
  /\ sbLast.op = "append" => ~sbLast.threw

(***************************************************************************)
(* C35: under fairness of the host timer queue, and provided every batch   *)
(* operation that was invoked eventually settles, the promise of every     *)
(* enqueued item is eventually settled, and it is settled exactly once:    *)
(* resolved or rejected, never both and never left pending.                *)
(***************************************************************************)
SettledStays ==
  \A i \in 1..Len(batItems) :
    batItems[i].state # "pending" =>
      /\ batItems'[i].state = batItems[i].state
      /\ batItems'[i].v = batItems[i].v

C35_EveryItemSettledOnce ==
  /\ \A i \in 1..MaxItems :
       (Len(batItems) >= i) ~> (Len(batItems) >= i /\ batItems[i].state # "pending")
  /\ [](\A i \in 1..Len(batItems) : batItems[i].n <= 1)
  /\ [][SettledStays]_vars

\* An item that waited for the timer of its key and one that filled its
\* window are both settled, one resolved and one rejected.
C35_Witness ==
  \E c, e \in 1..Len(batLog) :
    /\ batLog[c].trigger = "timer" /\ batLog[c].outcome = "resolved"
    /\ batLog[e].trigger = "size" /\ batLog[e].outcome = "rejected"
    /\ \A j \in 1..Len(batLog[c].items) : batItems[batLog[c].items[j]].state = "resolved"
    /\ \A j \in 1..Len(batLog[e].items) : batItems[batLog[e].items[j]].state = "rejected"

(***************************************************************************)
(* C36: constructing a pattern through the patched RegExp never changes    *)
(* the scan position (lastIndex) of a matcher that an earlier construction *)
(* returned and that a caller is still iterating, so that an exec loop     *)
(* over a global matcher visits each match once and terminates even when   *)
(* the same pattern and flags are constructed again between two of its     *)
(* iterations.                                                             *)
(***************************************************************************)
C36_ConstructionKeepsScanPosition ==
  reLast.op = "new" => reLast.moved = {}

(***************************************************************************)
(* C37: every item enqueued with batch(key, operation, data) is processed  *)
(* by the operation passed in its own call, for timer-triggered and for    *)
(* size-triggered flushes alike, even when calls sharing a key pass        *)
(* different operations.                                                   *)
(***************************************************************************)
C37_ItemGetsItsOwnOperation ==
  \A c \in 1..Len(batLog) :
    \A j \in 1..Len(batLog[c].items) :
      batItems[batLog[c].items[j]].op = batLog[c].op

(***************************************************************************)
(* C38: for every registration through the patched setInterval with a      *)
(* positive numeric requested delay, whatever the callback and the opt-out *)
(* flag, the effective delay passed to the original setInterval is greater *)
(* than or equal to the requested delay: the governor never makes a        *)
(* repeating timer fire more often than requested.                         *)
(***************************************************************************)
C38_NeverMoreOftenThanRequested ==
  (timerLast.fn # "none" /\ timerLast.delay.t = "number" /\ timerLast.delay.n > 0) =>
    \A c \in 1..Len(timerLast.calls) :
      /\ timerLast.calls[c].delay.t = "number"
      /\ timerLast.calls[c].delay.n >= timerLast.delay.n

C40_LookupAgreesWithArray ==
  \A item \in LookupItems :
    /\ LookupIndexOf(flaIndexMap, item) = OriginalIndexOf(flaArray, item, Undefined)
    /\ LookupIncludes(flaIndexMap, item) <=> item \in Range(flaArray)


====
